---- MODULE Spec2Model ----
(***************************************************************************)
(* A model of the ASN.1 DER codec of src/src/asn1.ts and of the byte       *)
(* buffer of src/src/util.ts it is built on.                                *)
(*                                                                         *)
(* A JavaScript binary string is a sequence of character codes (bytes are  *)
(* 0..255, BMPSTRING characters 0..65535).  An Asn1 object is a record     *)
(*   [tagClass, type, constructed, composed, arr, value, bsc, original]    *)
(* where arr tells whether value is an array of Asn1 objects (TRUE) or a   *)
(* string (FALSE), bsc is <<>> when the object has no bitStringContents    *)
(* key and <<[def, s]>> when it has one (def = FALSE: the key holds        *)
(* undefined), and original is <<>> or <<the snapshot>>.                   *)
(* A thrown exception is a record with a name and a message; an operator   *)
(* that can throw returns its exception in a field err (<<>>: no throw).   *)
(***************************************************************************)
EXTENDS Integers, Sequences, FiniteSets, TLC

VARIABLES
  obj,    \* <<>> or <<the Asn1 object the caller holds>>
  buf,    \* the ByteStringBuffer the caller holds: [data, read]
  opts,   \* the options of the last fromDer call: [strict, parseAllBytes, decodeBitStrings]
  err,    \* <<>> or <<the exception the last call threw>>
  pc,     \* the caller's position
  src,    \* the caller's original input (a tree, a byte string or a number), kept for comparison
  tr,     \* what the last fromDer call went through (branches taken, depth reached)
  arg     \* the scalar argument of the last call

vars == <<obj, buf, opts, err, pc, src, tr, arg>>

(***************************************************************************)
(* Bounds of the model.                                                    *)
(***************************************************************************)
MaxLen == 5          \* longest input byte string handed to fromDer
MaxNodes == 2        \* most Asn1 objects in a tree built with create()
MaxStr == 2          \* longest primitive value of a tree built with create()
MaxValueLen == 300   \* longest value whose length prefix toDer is asked to emit
MaxDelta == 3        \* integerToDer is tried this far on both sides of each width boundary

(***************************************************************************)
(* Program constants.                                                      *)
(***************************************************************************)
UNIVERSAL == 0
APPLICATION == 64
CONTEXT_SPECIFIC == 128
PRIVATE == 192

NONE == 0
INTEGER == 2
BITSTRING == 3
OCTETSTRING == 4
SEQUENCE == 16
BMPSTRING == 30

\* String.prototype.charCodeAt yields NaN for an index outside the string.
NaN == 0 - 1

Min(a, b) == IF a < b THEN a ELSE b
Max(a, b) == IF a > b THEN a ELSE b

RECURSIVE Pow2(_)
Pow2(n) == IF n <= 0 THEN 1 ELSE 2 * Pow2(n - 1)

\* s.charCodeAt(i), i counted from 0
CharCodeAt(s, i) == IF i >= 0 /\ i < Len(s) THEN s[i + 1] ELSE NaN

\* s.slice(a, b) for 0 <= a
Slice(s, a, b) ==
  LET e == Min(b, Len(s))
  IN IF a >= e THEN <<>> ELSE SubSeq(s, a + 1, e)

\* ToInt32 of a value read from a string: NaN becomes 0
ToInt(v) == IF v = NaN THEN 0 ELSE v

\* (v << 8) in 32-bit two's complement, for 0 <= v
Shl8(v) ==
  LET m == v % 16777216
  IN IF m >= 8388608 THEN (m - 16777216) * 256 ELSE m * 256

\* a ^ b for 0 <= a, b
RECURSIVE Xor(_, _)
Xor(a, b) ==
  IF a = 0 THEN b
  ELSE IF b = 0 THEN a
  ELSE 2 * Xor(a \div 2, b \div 2) + ((a + b) % 2)

\* a & b for 0 <= a, b
RECURSIVE And(_, _)
And(a, b) ==
  IF a = 0 \/ b = 0 THEN 0
  ELSE 2 * And(a \div 2, b \div 2) + ((a % 2) * (b % 2))

\* a | b for 0 <= a, b
Or(a, b) == a + b - And(a, b)

(***************************************************************************)
(* ByteStringBuffer (src/src/util.ts).  A buffer is [data, read].          *)
(***************************************************************************)
createBuffer(s) == [data |-> s, read |-> 0]

length(b) == Len(b.data) - b.read

putBytes(b, s) == [b EXCEPT !.data = @ \o s]

\* String.fromCharCode keeps the low 16 bits of its argument
putByte(b, v) == putBytes(b, <<v % 65536>>)

putInt16(b, i) == putBytes(b, <<(i \div 256) % 256, i % 256>>)

getByte(b) == [val |-> CharCodeAt(b.data, b.read), buf |-> [b EXCEPT !.read = @ + 1]]

getInt16(b) ==
  LET hi == ToInt(CharCodeAt(b.data, b.read))
      lo == ToInt(CharCodeAt(b.data, b.read + 1))
  IN [val |-> Xor(hi * 256, lo), buf |-> [b EXCEPT !.read = @ + 2]]

bytes(b, count) == Slice(b.data, b.read, b.read + count)

bytesAll(b) == Slice(b.data, b.read, Len(b.data))

clear(b) == [data |-> <<>>, read |-> 0]

\* getBytes(count) with a number count
getBytes(b, count) ==
  IF count # 0
    THEN LET c == Min(length(b), count)
         IN [val |-> Slice(b.data, b.read, b.read + c), buf |-> [b EXCEPT !.read = @ + c]]
    ELSE [val |-> <<>>, buf |-> b]

\* getBytes() with count omitted
getBytesAll(b) == [val |-> bytesAll(b), buf |-> clear(b)]

putBuffer(b, other) == putBytes(b, getBytesAll(other).val)

\* _checkBitsParam(n): getInt and putInt throw for any other n
checkBitsParam(n) ==
  IF n \in {8, 16, 24, 32} THEN <<>>
  ELSE <<[name |-> "Error", message |-> "Only 8, 16, 24, or 32 bits supported"]>>

\* the loop of getInt: rval = (rval << 8) + charCodeAt(read++); a read past the
\* end adds NaN, which makes rval NaN, and the next round shifts NaN to 0
RECURSIVE getIntLoop(_, _, _)
getIntLoop(b, n, rval) ==
  LET c == CharCodeAt(b.data, b.read)
      r == IF c = NaN THEN [nan |-> TRUE, val |-> 0]
           ELSE [nan |-> FALSE, val |-> Shl8(rval.val) + c]
      b1 == [b EXCEPT !.read = @ + 1]
  IN IF n - 8 > 0 THEN getIntLoop(b1, n - 8, r)
     ELSE [val |-> r.val, nan |-> r.nan, buf |-> b1]

\* getInt(n): nan tells that the number returned is NaN
getInt(b, n) ==
  IF checkBitsParam(n) # <<>>
    THEN [err |-> checkBitsParam(n), val |-> 0, nan |-> FALSE, buf |-> b]
    ELSE [err |-> <<>>,
          val |-> getIntLoop(b, n, [nan |-> FALSE, val |-> 0]).val,
          nan |-> getIntLoop(b, n, [nan |-> FALSE, val |-> 0]).nan,
          buf |-> getIntLoop(b, n, [nan |-> FALSE, val |-> 0]).buf]

(***************************************************************************)
(* Asn1 objects (src/src/asn1.ts): create, copy, equals.                   *)
(***************************************************************************)
Classes == {UNIVERSAL, APPLICATION, CONTEXT_SPECIFIC, PRIVATE}

\* copy(obj, options): hasOptions tells whether an options object was passed
RECURSIVE copy(_, _, _)
copy(o, hasOptions, excludeBitStringContents) ==
  [tagClass |-> o.tagClass,
   type |-> o.type,
   constructed |-> o.constructed,
   composed |-> o.composed,
   arr |-> o.arr,
   value |-> IF o.arr
               THEN [i \in 1..Len(o.value) |->
                       copy(o.value[i], hasOptions, excludeBitStringContents)]
               ELSE o.value,
   bsc |-> IF hasOptions /\ ~excludeBitStringContents
             THEN (IF o.bsc = <<>> THEN <<[def |-> FALSE, s |-> <<>>]>> ELSE o.bsc)
             ELSE <<>>,
   original |-> <<>>]

\* composed follows constructed alone
composedOfConstructed(constructed, arr) == constructed

\* composed: constructed || isArray(value)
composedOf(constructed, arr) == constructed \/ arr

\* create(tagClass, type, constructed, value, options): arr tells whether value
\* is an array; bsc is <<>> (no options) or <<[def, s]>> (options.bitStringContents)
create(tagClass, type, constructed, arr, value, bsc) ==
  LET o == [tagClass |-> tagClass,
            type |-> type,
            constructed |-> constructed,
            composed |-> composedOf(constructed, arr),
            arr |-> arr,
            value |-> value,
            bsc |-> bsc,
            original |-> <<>>]
  IN IF bsc # <<>> THEN [o EXCEPT !.original = <<copy(o, FALSE, FALSE)>>] ELSE o

\* obj.bitStringContents as a value: <<>> is undefined (no key, or a key holding
\* undefined), <<s>> the string s
bitStringContentsOf(o) == IF o.bsc = <<>> \/ ~o.bsc[1].def THEN <<>> ELSE <<o.bsc[1].s>>

\* equals(obj1, obj2, options) on two Asn1 objects; the recursive calls on the
\* values and on the elements of arrays pass no options
RECURSIVE equals(_, _, _)
equals(o1, o2, includeBitStringContents) ==
  /\ o1.tagClass = o2.tagClass
  /\ o1.type = o2.type
  /\ o1.constructed = o2.constructed
  /\ o1.composed = o2.composed
  /\ IF o1.arr \/ o2.arr
       THEN /\ o1.arr /\ o2.arr
            /\ Len(o1.value) = Len(o2.value)
            /\ \A i \in 1..Len(o1.value) : equals(o1.value[i], o2.value[i], FALSE)
       ELSE o1.value = o2.value
  /\ (includeBitStringContents => bitStringContentsOf(o1) = bitStringContentsOf(o2))

(***************************************************************************)
(* fromDer (src/src/asn1.ts).  The record t notes what a parse went        *)
(* through: over (a declared length exceeded the remaining budget in an    *)
(* invocation that is not part of a speculative BIT STRING decode),        *)
(* overIn (the same inside a speculative decode), deep (the largest depth  *)
(* argument), calls (the number of _fromDer invocations), swallowed (a     *)
(* speculative decode caught an exception), bad (an invocation started     *)
(* with a budget that is negative or larger than the unread bytes),        *)
(* badStep (the same after the budget was updated inside an invocation),   *)
(* missing (a read went past the last byte of the buffer), short (an       *)
(* invocation returned having read fewer than two bytes), stuck (a round   *)
(* of a child loop did not reduce the budget).                             *)
(***************************************************************************)
NoTrace == [over |-> FALSE, overIn |-> FALSE, deep |-> 0, calls |-> 0,
            swallowed |-> FALSE, bad |-> FALSE, badStep |-> FALSE,
            missing |-> FALSE, short |-> FALSE, stuck |-> FALSE]

\* the budget is remaining after an update, b being the buffer then
Step(t, b, remaining) ==
  [t EXCEPT !.badStep = @ \/ remaining < 0 \/ remaining > length(b)]

\* a read was made; past tells whether it went past the last byte
Miss(t, past) == [t EXCEPT !.missing = @ \/ past]

\* a round of a child loop used so many bytes of the budget
Round(t, used) == [t EXCEPT !.stuck = @ \/ used <= 0]

\* an invocation that started on the buffer b0 returns r
Leave(b0, r) ==
  IF r.err = <<>> /\ length(b0) - length(r.buf) < 2
    THEN [r EXCEPT !.tr = [@ EXCEPT !.short = TRUE]]
    ELSE r

Enter(t, b, remaining, depth) ==
  [t EXCEPT !.deep = Max(@, depth),
            !.calls = @ + 1,
            !.bad = @ \/ remaining < 0 \/ remaining > length(b)]

TooFewBytesDerError(message, b, remaining, n) ==
  [name |-> "TooFewBytesDerError", message |-> message,
   available |-> length(b), remaining |-> remaining, requested |-> n]

\* a check that never throws
checkBufferLengthNever(b, remaining, n) == <<>>

\* _checkBufferLength: <<>> or <<the exception thrown>>
checkBufferLength(b, remaining, n) ==
  IF n > remaining
    THEN <<TooFewBytesDerError("Too few bytes to parse DER.", b, remaining, n)>>
    ELSE <<>>

\* _getValueLength: undef = TRUE stands for the return value undefined, missing
\* tells whether a read went past the last byte
getValueLength(b, remaining) ==
  LET g == getByte(b)
      b2 == g.val
      rem1 == remaining - 1
      longFormBytes == ToInt(b2) % 128
      chk == checkBufferLength(g.buf, rem1, longFormBytes)
      gi == getInt(g.buf, longFormBytes * 8)
      past == gi.buf.read > Len(b.data)
  IN IF b2 = 128
       THEN [err |-> <<>>, undef |-> TRUE, len |-> 0, buf |-> g.buf, missing |-> FALSE]
     ELSE IF ToInt(b2) < 128
       THEN [err |-> <<>>, undef |-> FALSE, len |-> b2, buf |-> g.buf,
             missing |-> b2 = NaN]
     ELSE IF chk # <<>>
       THEN [err |-> chk, undef |-> FALSE, len |-> 0, buf |-> g.buf, missing |-> FALSE]
     ELSE IF gi.err # <<>>
       THEN [err |-> gi.err, undef |-> FALSE, len |-> 0, buf |-> g.buf,
             missing |-> FALSE]
     ELSE IF gi.val < 0
       THEN [err |-> <<[name |-> "Error", message |-> "Negative length"]>>,
             undef |-> FALSE, len |-> 0, buf |-> gi.buf, missing |-> past]
     ELSE [err |-> <<>>, undef |-> FALSE, len |-> gi.val, buf |-> gi.buf,
           missing |-> past]

Throw(e, b, t) == [err |-> <<e>>, node |-> <<>>, buf |-> b, tr |-> t]
Return(n, b, t) == [err |-> <<>>, node |-> <<n>>, buf |-> b, tr |-> t]

\* the BMPSTRING loop of _fromDer: two bytes per character while length > 0
RECURSIVE bmpLoop(_, _, _, _)
bmpLoop(b, remaining, len, acc) ==
  IF len > 0
    THEN IF checkBufferLength(b, remaining, 2) # <<>>
           THEN [err |-> checkBufferLength(b, remaining, 2), value |-> acc, buf |-> b]
           ELSE bmpLoop(getInt16(b).buf, remaining - 2, len - 2,
                        Append(acc, getInt16(b).val % 65536))
    ELSE [err |-> <<>>, value |-> acc, buf |-> b]

\* the tag byte's fields
tagClassOf(b1) == (ToInt(b1) \div 64) * 64
typeOf(b1) == ToInt(b1) % 32
constructedOf(b1) == (ToInt(b1) \div 32) % 2 = 1

\* lengthExceeds with the budget taken one byte too large
lengthExceedsOffByOne(undef, len, remaining) == ~undef /\ len > remaining + 1

\* the test that guards the clamp: the declared length exceeds the budget
lengthExceeds(undef, len, remaining) == ~undef /\ len > remaining

\* if (options.strict) with the test lost: every overlong value throws
beStrictAlways(strict) == TRUE

\* if (options.strict): whether an overlong value throws
beStrict(strict) == strict

\* the declared length kept as it is
clampLengthKept(len, remaining) == len

\* the lenient clamp of the declared length
clampLength(len, remaining) == remaining

\* acceptDecoded without the comparison of the bytes used with the length
acceptDecodedAnyLength(used, len, tc) == tc \in {UNIVERSAL, CONTEXT_SPECIFIC}

\* acceptDecoded without the test of the tag class
acceptDecodedAnyClass(used, len, tc) == used = len

\* the test that accepts a speculative decode
acceptDecoded(used, len, tc) == used = len /\ tc \in {UNIVERSAL, CONTEXT_SPECIFIC}

\* an end tag found at the first zero byte
isEndTagOneZero(b) == bytes(b, 1) = <<0>>

\* bytes.bytes(2) === String.fromCharCode(0, 0)
isEndTag(b) == bytes(b, 2) = <<0, 0>>

RECURSIVE fromDerRec(_, _, _, _, _, _)
RECURSIVE definiteLoop(_, _, _, _, _, _, _, _)
RECURSIVE definiteNext(_, _, _, _, _, _, _, _)
RECURSIVE indefiniteLoop(_, _, _, _, _, _, _)
RECURSIVE indefiniteNext(_, _, _, _, _, _, _)
RECURSIVE decodeBitString(_, _, _, _, _)

\* while(length > 0) value.push(_fromDer(bytes, length, depth + 1, options))
definiteLoop(b, remaining, len, depth, strict, decode, t, acc) ==
  IF len > 0
    THEN definiteNext(b, remaining, len, depth, strict, decode, acc,
                      fromDerRec(b, len, depth + 1, strict, decode, t))
    ELSE [err |-> <<>>, value |-> acc, buf |-> b, tr |-> t]

\* the rest of one round of that loop, c being what the call of _fromDer gave
definiteNext(b, remaining, len, depth, strict, decode, acc, c) ==
  IF c.err # <<>>
    THEN [err |-> c.err, value |-> acc, buf |-> c.buf, tr |-> c.tr]
    ELSE definiteLoop(c.buf, remaining - (length(b) - length(c.buf)),
                      len - (length(b) - length(c.buf)), depth,
                      strict, decode,
                      Round(Step(c.tr, c.buf, remaining - (length(b) - length(c.buf))),
                            length(b) - length(c.buf)),
                      Append(acc, c.node[1]))

\* for(;;): children until the two zero bytes of the end tag
indefiniteLoop(b, remaining, depth, strict, decode, t, acc) ==
  IF checkBufferLength(b, remaining, 2) # <<>>
    THEN [err |-> checkBufferLength(b, remaining, 2), value |-> acc, buf |-> b, tr |-> t]
  ELSE IF isEndTag(b)
    THEN [err |-> <<>>, value |-> acc, buf |-> getBytes(b, 2).buf,
          tr |-> Step(t, getBytes(b, 2).buf, remaining - 2)]
  ELSE indefiniteNext(b, remaining, depth, strict, decode, acc,
                      fromDerRec(b, remaining, depth + 1, strict, decode,
                                 Miss(t, length(b) < 2)))

\* the rest of one round of that loop, c being what the call of _fromDer gave
indefiniteNext(b, remaining, depth, strict, decode, acc, c) ==
  IF c.err # <<>>
    THEN [err |-> c.err, value |-> acc, buf |-> c.buf, tr |-> c.tr]
    ELSE indefiniteLoop(c.buf, remaining - (length(b) - length(c.buf)), depth,
                        strict, decode,
                        Round(Step(c.tr, c.buf, remaining - (length(b) - length(c.buf))),
                              length(b) - length(c.buf)),
                        Append(acc, c.node[1]))

\* the try block of the speculative decode, sub being what the strict call of
\* _fromDer on the buffer b0 with the budget rem0 gave; an exception of that
\* call is caught
decodeAttempt(b, t, len, b0, rem0, sub) ==
  LET used == (length(b0) - length(sub.buf)) + 1
      ts == IF sub.err = <<>> THEN Step(sub.tr, sub.buf, rem0 - (used - 1)) ELSE sub.tr
      tm == [ts EXCEPT !.over = t.over,
                       !.overIn = @ \/ sub.tr.over,
                       !.swallowed = @ \/ sub.err # <<>>]
  IN IF sub.err = <<>> /\ acceptDecoded(used, len, sub.node[1].tagClass)
       THEN [err |-> <<>>, found |-> TRUE, child |-> sub.node, buf |-> sub.buf, tr |-> tm]
       ELSE [err |-> <<>>, found |-> FALSE, child |-> <<>>, buf |-> b, tr |-> tm]

\* the speculative decode of a BIT STRING's contents; found = FALSE leaves the
\* read position and the budget as saved
decodeBitString(b, remaining, depth, t, len) ==
  IF checkBufferLength(b, remaining, 1) # <<>>
    THEN [err |-> checkBufferLength(b, remaining, 1), found |-> FALSE,
          child |-> <<>>, buf |-> b, tr |-> t]
  ELSE IF getByte(b).val # 0
    THEN [err |-> <<>>, found |-> FALSE, child |-> <<>>, buf |-> b,
          tr |-> Miss(Step(t, getByte(b).buf, remaining - 1), getByte(b).val = NaN)]
  ELSE decodeAttempt(b, t, len, getByte(b).buf, remaining - 1,
                     fromDerRec(getByte(b).buf, remaining - 1, depth + 1, TRUE, TRUE,
                                [Step(t, getByte(b).buf, remaining - 1)
                                   EXCEPT !.over = FALSE]))

\* _fromDer from "if (value === undefined)" on: the raw value
fromDerRaw(b, remaining, strict, t, tagClass, type, undef, len, bitStringContents) ==
  LET len1 == IF undef THEN remaining ELSE len
      bmp == bmpLoop(b, remaining, len1, <<>>)
      tb == Miss(Step(t, bmp.buf, remaining - (length(b) - length(bmp.buf))),
                 bmp.buf.read > Len(bmp.buf.data))
      raw == getBytes(b, len1)
  IN IF undef /\ strict
       THEN Throw([name |-> "Error",
                   message |-> "Non-constructed ASN.1 object of indefinite length."],
                  b, t)
     ELSE IF type = BMPSTRING
       THEN IF bmp.err # <<>>
              THEN Throw(bmp.err[1], bmp.buf, tb)
              ELSE Return(create(tagClass, type, FALSE, FALSE, bmp.value, bitStringContents),
                          bmp.buf, tb)
     ELSE Return(create(tagClass, type, FALSE, FALSE, raw.val, bitStringContents),
                 raw.buf, Miss(Step(t, raw.buf, remaining - len1), Len(raw.val) < len1))

\* _fromDer after the speculative decode, d being what it gave
fromDerDecoded(b, remaining, strict, tagClass, type, undef, len, bitStringContents, d) ==
  IF d.err # <<>>
    THEN Throw(d.err[1], d.buf, d.tr)
  ELSE IF d.found
    THEN Return(create(tagClass, type, FALSE, TRUE, d.child, bitStringContents),
                d.buf, d.tr)
  ELSE fromDerRaw(b, remaining, strict, d.tr, tagClass, type, undef, len,
                  bitStringContents)

\* _fromDer from "value storage" on, for a value that is not constructed
fromDerPrimitive(b, remaining, depth, strict, decode, t, tagClass, type, undef, len) ==
  LET isBitString == tagClass = UNIVERSAL /\ type = BITSTRING
      bitStringContents ==
        IF isBitString
          THEN <<[def |-> TRUE, s |-> IF undef THEN bytesAll(b) ELSE bytes(b, len)]>>
          ELSE <<>>
      tc == Miss(t, isBitString /\ ~undef /\ len > length(b))
  IN IF decode /\ isBitString /\ ~undef /\ len > 1
       THEN fromDerDecoded(b, remaining, strict, tagClass, type, undef, len,
                           bitStringContents,
                           decodeBitString(b, remaining, depth, tc, len))
       ELSE fromDerRaw(b, remaining, strict, tc, tagClass, type, undef, len,
                       bitStringContents)

\* _fromDer after the loops of a constructed value, kids being what they gave
fromDerConstructed(b1, kids) ==
  IF kids.err # <<>>
    THEN Throw(kids.err[1], kids.buf, kids.tr)
    ELSE Return(create(tagClassOf(b1), typeOf(b1), TRUE, TRUE, kids.value, <<>>),
                kids.buf, kids.tr)

\* _fromDer from "value storage" on
fromDerValue(b, remaining, depth, strict, decode, t, b1, undef, len) ==
  IF constructedOf(b1)
    THEN fromDerConstructed(b1,
           IF undef
             THEN indefiniteLoop(b, remaining, depth, strict, decode, t, <<>>)
             ELSE definiteLoop(b, remaining, len, depth, strict, decode, t, <<>>))
    ELSE fromDerPrimitive(b, remaining, depth, strict, decode, t,
                          tagClassOf(b1), typeOf(b1), undef, len)

\* _fromDer from "ensure there are enough bytes to get the value" on: remaining
\* is the budget after the tag and length bytes, vl what _getValueLength gave
fromDerChecked(remaining, depth, strict, decode, t, b1, vl) ==
  LET over == lengthExceeds(vl.undef, vl.len, remaining)
      t2 == [t EXCEPT !.over = @ \/ (~vl.undef /\ vl.len > remaining)]
  IN IF over /\ beStrict(strict)
       THEN Throw(TooFewBytesDerError("Too few bytes to read ASN.1 value.",
                                      vl.buf, remaining, vl.len), vl.buf, t2)
       ELSE fromDerValue(vl.buf, remaining, depth, strict, decode, t2, b1, vl.undef,
                         IF over THEN clampLength(vl.len, remaining) ELSE vl.len)

\* _fromDer from the call of _getValueLength on: b is the buffer after the tag
\* byte b1, remaining the budget after it, vl what _getValueLength gave
fromDerLength(b, remaining, depth, strict, decode, t, b1, vl) ==
  IF vl.err # <<>>
    THEN Throw(vl.err[1], vl.buf, Miss(t, vl.missing))
    ELSE fromDerChecked(remaining - (length(b) - length(vl.buf)), depth, strict,
                        decode,
                        Miss(Step(t, vl.buf, remaining - (length(b) - length(vl.buf))),
                             vl.missing),
                        b1, vl)

\* _fromDer(bytes, remaining, depth, options)
fromDerRec(b, remaining, depth, strict, decode, t0) ==
  IF checkBufferLength(b, remaining, 2) # <<>>
    THEN Throw(checkBufferLength(b, remaining, 2)[1], b, Enter(t0, b, remaining, depth))
    ELSE Leave(b, fromDerLength(getByte(b).buf, remaining - 1, depth, strict, decode,
                                Miss(Step(Enter(t0, b, remaining, depth),
                                          getByte(b).buf, remaining - 1),
                                     getByte(b).val = NaN),
                                getByte(b).val,
                                getValueLength(getByte(b).buf, remaining - 1)))

UnparsedDerBytesRemainError(byteCount, remaining) ==
  [name |-> "UnparsedDerBytesRemainError",
   message |-> "Unparsed DER bytes remain after ASN.1 parsing.",
   byteCount |-> byteCount, remaining |-> remaining]

\* bytesRemain without the test of options.parseAllBytes
bytesRemainAlways(o, b) == length(b) # 0

\* the test fromDer makes after the parse
bytesRemain(o, b) == o.parseAllBytes /\ length(b) # 0

\* fromDer after the call of _fromDer, r being what it gave
fromDerDone(o, byteCount, r) ==
  IF r.err # <<>> THEN r
  ELSE IF bytesRemain(o, r.buf)
    THEN Throw(UnparsedDerBytesRemainError(byteCount, length(r.buf)), r.buf, r.tr)
  ELSE r

\* fromDer(bytes, options) on a buffer
fromDer(b, o) ==
  fromDerDone(o, length(b),
              fromDerRec(b, length(b), 0, o.strict, o.decodeBitStrings, NoTrace))

(***************************************************************************)
(* toDer (src/src/asn1.ts).                                                *)
(***************************************************************************)
TypeError(message) == [name |-> "TypeError", message |-> message]

\* the little-endian base-256 digits of len: do { ... } while(len > 0)
RECURSIVE lenBytesOf(_)
lenBytesOf(len) ==
  <<len % 256>> \o (IF len \div 256 > 0 THEN lenBytesOf(len \div 256) ELSE <<>>)

Reverse(s) == [i \in 1..Len(s) |-> s[Len(s) + 1 - i]]

\* shortForm with the limit one too small
shortFormBelow127(n) == n < 127

\* the test for the "short form" of the length
shortForm(n) == n <= 127

\* the length bytes toDer puts after the tag byte for a value of n bytes
derLength(n) ==
  IF shortForm(n)
    THEN <<n % 128>>
    ELSE <<Or(Len(lenBytesOf(n)), 128)>> \o Reverse(lenBytesOf(n))

\* notMinimal without the look at the second byte
notMinimalByFirstByte(type, v) == type = INTEGER /\ Len(v) > 1 /\ v[1] \in {0, 255}

\* the test for an INTEGER value with a redundant leading byte
notMinimal(type, v) ==
  /\ type = INTEGER
  /\ Len(v) > 1
  /\ \/ (v[1] = 0 /\ And(v[2], 128) = 0)
     \/ (v[1] = 255 /\ And(v[2], 128) = 128)

\* the value bytes of a primitive that is not a BMPSTRING
integerValue(type, v) == IF notMinimal(type, v) THEN SubSeq(v, 2, Len(v)) ELSE v

RECURSIVE putInt16All(_)
putInt16All(v) ==
  IF v = <<>> THEN <<>>
  ELSE <<(v[1] \div 256) % 256, v[1] % 256>> \o putInt16All(Tail(v))

\* what "this.data += bytes" appends when bytes is an array of objects: each
\* element reads "[object Object]" and a comma stands between two of them
RECURSIVE arrayToString(_)
arrayToString(v) ==
  IF v = <<>> THEN <<>>
  ELSE <<91, 111, 98, 106, 101, 99, 116, 32, 79, 98, 106, 101, 99, 116, 93>>
         \o (IF Len(v) > 1 THEN <<44>> ELSE <<>>) \o arrayToString(Tail(v))

\* the stored bytes are used whenever they are there
useBitStringContentsAlways(o) == o.bsc # <<>>

\* "use BIT STRING contents if available and data not changed"
useBitStringContents(o) ==
  /\ o.bsc # <<>>
  /\ (o.original # <<>> => equals(o, o.original[1], FALSE))

\* tagByte without b1 |= 0x20
tagByteNoConstructedBit(o, constructedBit) == Or(o.tagClass, o.type)

\* the tag byte
tagByte(o, constructedBit) ==
  IF constructedBit THEN Or(Or(o.tagClass, o.type), 32) ELSE Or(o.tagClass, o.type)

RECURSIVE toDer(_)
RECURSIVE toDerAll(_, _)

\* the loop that adds the DER bytes of all children to value
toDerAll(kids, acc) ==
  IF kids = <<>> THEN [err |-> <<>>, bytes |-> acc]
  ELSE LET c == toDer(kids[1])
       IN IF c.err # <<>> THEN [err |-> c.err, bytes |-> acc]
          ELSE toDerAll(Tail(kids), acc \o c.bytes)

\* toDer(obj): bytes is the data of the buffer returned (its read position is 0)
toDer(o) ==
  LET useBsc == useBitStringContents(o)
      kids == toDerAll(o.value, IF o.constructed THEN <<>> ELSE <<0>>)
      value ==
        IF useBsc THEN
          IF o.bsc[1].def
            THEN [err |-> <<>>, bytes |-> o.bsc[1].s]
            ELSE [err |-> <<TypeError("Cannot read properties of undefined")>>,
                  bytes |-> <<>>]
        ELSE IF o.composed THEN
          IF o.arr THEN kids
          ELSE IF o.value = <<>>
            THEN [err |-> <<>>, bytes |-> IF o.constructed THEN <<>> ELSE <<0>>]
            ELSE [err |-> <<TypeError("Cannot use 'in' operator in a string")>>,
                  bytes |-> <<>>]
        ELSE IF o.arr
          THEN IF (o.type = BMPSTRING /\ Len(o.value) > 0)
                    \/ (o.type = INTEGER /\ Len(o.value) > 1)
                 THEN [err |-> <<TypeError("charCodeAt is not a function")>>,
                       bytes |-> <<>>]
                 ELSE [err |-> <<>>, bytes |-> arrayToString(o.value)]
        ELSE IF o.type = BMPSTRING
          THEN [err |-> <<>>, bytes |-> putInt16All(o.value)]
        ELSE [err |-> <<>>, bytes |-> integerValue(o.type, o.value)]
      b1 == tagByte(o, ~useBsc /\ o.composed /\ o.constructed)
  IN IF value.err # <<>> THEN value
     ELSE [err |-> <<>>,
           bytes |-> <<b1>> \o derLength(Len(value.bytes)) \o value.bytes]

(***************************************************************************)
(* integerToDer (src/src/asn1.ts) with putSignedInt and putInt              *)
(* (src/src/util.ts).  A JavaScript number that may lie outside the signed *)
(* 32-bit range is the record [hi, lo] standing for hi * 65536 + lo with   *)
(* lo in 0..65535; the bitwise operators act on its low 32 bits.           *)
(***************************************************************************)
Num(hi, lo) == [hi |-> hi, lo |-> lo]

NumLess(a, b) == a.hi < b.hi \/ (a.hi = b.hi /\ a.lo < b.lo)

NumAdd(a, b) ==
  [hi |-> a.hi + b.hi + ((a.lo + b.lo) \div 65536), lo |-> (a.lo + b.lo) % 65536]

\* ToInt32
NumToInt32(a) == [hi |-> ((a.hi + 32768) % 65536) - 32768, lo |-> a.lo]

\* 2 << k for 0 <= k <= 31
TwoShl(k) ==
  NumToInt32(IF k + 1 < 16 THEN Num(0, Pow2(k + 1)) ELSE Num(Pow2(k + 1 - 16), 0))

\* (i >> n) & 0xFF for n in {0, 8, 16, 24}
ShrByte(i, n) ==
  IF n = 0 THEN i.lo % 256
  ELSE IF n = 8 THEN i.lo \div 256
  ELSE IF n = 16 THEN NumToInt32(i).hi % 256
  ELSE (NumToInt32(i).hi \div 256) % 256

RECURSIVE putIntLoop(_, _)
putIntLoop(i, n) ==
  <<ShrByte(i, n - 8)>> \o (IF n - 8 > 0 THEN putIntLoop(i, n - 8) ELSE <<>>)

\* putInt(i, n)
putInt(b, i, n) ==
  IF checkBitsParam(n) # <<>>
    THEN [err |-> checkBitsParam(n), buf |-> b]
    ELSE [err |-> <<>>, buf |-> putBytes(b, putIntLoop(i, n))]

\* putSignedInt(i, n)
putSignedInt(b, i, n) ==
  putInt(b, IF NumLess(i, Num(0, 0)) THEN NumAdd(i, TwoShl(n - 1)) ELSE i, n)

\* widthFor with every upper limit taken as inclusive (x <= 0x80, ...)
widthForInclusive(x) ==
  IF ~NumLess(x, Num(0 - 1, 65408)) /\ ~NumLess(Num(0, 128), x) THEN 8
  ELSE IF ~NumLess(x, Num(0 - 1, 32768)) /\ ~NumLess(Num(0, 32768), x) THEN 16
  ELSE IF ~NumLess(x, Num(0 - 128, 0)) /\ ~NumLess(Num(128, 0), x) THEN 24
  ELSE IF ~NumLess(x, Num(0 - 32768, 0)) /\ ~NumLess(Num(32768, 0), x) THEN 32
  ELSE 0

\* the width integerToDer chooses for x: 8, 16, 24, 32, or 0 when it throws
widthFor(x) ==
  IF ~NumLess(x, Num(0 - 1, 65408)) /\ NumLess(x, Num(0, 128)) THEN 8
  ELSE IF ~NumLess(x, Num(0 - 1, 32768)) /\ NumLess(x, Num(0, 32768)) THEN 16
  ELSE IF ~NumLess(x, Num(0 - 128, 0)) /\ NumLess(x, Num(128, 0)) THEN 24
  ELSE IF ~NumLess(x, Num(0 - 32768, 0)) /\ NumLess(x, Num(32768, 0)) THEN 32
  ELSE 0

\* integerToDer(x)
integerToDer(x) ==
  IF widthFor(x) # 0
    THEN putSignedInt(createBuffer(<<>>), x, widthFor(x))
    ELSE [err |-> <<[name |-> "Error", message |-> "Integer too large; max is 32-bits.",
                     integer |-> x]>>,
          buf |-> createBuffer(<<>>)]

(***************************************************************************)
(* The callers.                                                            *)
(***************************************************************************)
NoOpts == [strict |-> TRUE, parseAllBytes |-> TRUE, decodeBitStrings |-> TRUE]

\* the integers integerToDer is called with: MaxDelta on both sides of 0 and of
\* every boundary between two widths
Boundaries ==
  {Num(0, 0), Num(0, 128), Num(0 - 1, 65408), Num(0, 32768), Num(0 - 1, 32768),
   Num(128, 0), Num(0 - 128, 0), Num(32768, 0), Num(0 - 32768, 0)}

IntInputs ==
  {NumAdd(c, Num(0, d)) : c \in Boundaries, d \in 0..MaxDelta} \cup
  {NumAdd(c, Num(0 - 1, 65536 - d)) : c \in Boundaries, d \in 1..MaxDelta}

InitInt ==
  /\ arg \in IntInputs
  /\ pc = "int"
  /\ obj = <<>> /\ buf = createBuffer(<<>>) /\ opts = NoOpts /\ err = <<>>
  /\ src = <<>> /\ tr = NoTrace

IntegerToDer ==
  /\ pc = "int"
  /\ buf' = integerToDer(arg).buf
  /\ err' = integerToDer(arg).err
  /\ pc' = "intDone"
  /\ UNCHANGED <<obj, opts, src, tr, arg>>

NextInt == IntegerToDer

SpecInt == InitInt /\ [][NextInt]_vars

\* every options object fromDer can be called with, once its defaults are filled in
Options == [strict : BOOLEAN, parseAllBytes : BOOLEAN, decodeBitStrings : BOOLEAN]

\* the strings of at most n bytes over the alphabet A
ByteStrings(A, n) == UNION {[1..k -> A] : k \in 0..n}

\* the bytes the inputs of fromDer are made of: 0x00, 0x02 (INTEGER, length 2),
\* 0x03 (BIT STRING, length 3), 0x30 (SEQUENCE), 0x40 (APPLICATION 0) and 0x80
\* (indefinite length, [0])
DerBytes == {0, 2, 3, 48, 64, 128}

InitDer ==
  /\ src \in ByteStrings(DerBytes, MaxLen)
  /\ buf = createBuffer(src)
  /\ pc = "input"
  /\ obj = <<>> /\ opts = NoOpts /\ err = <<>> /\ tr = NoTrace /\ arg = Num(0, 0)

\* the caller parses the buffer it holds: obj = fromDer(buf, o)
FromDer(o) ==
  /\ pc \in {"input", "encoded"}
  /\ \E r \in {fromDer(buf, o)} :
        /\ obj' = r.node
        /\ buf' = r.buf
        /\ err' = r.err
        /\ tr' = r.tr
  /\ opts' = o
  /\ pc' = IF pc = "input" THEN "parsed" ELSE "reparsed"
  /\ UNCHANGED <<src, arg>>

\* the caller encodes the object it parsed: buf = toDer(obj)
ToDerParsed ==
  /\ pc = "parsed"
  /\ obj # <<>>
  /\ \E e \in {toDer(obj[1])} :
        /\ buf' = IF e.err = <<>> THEN createBuffer(e.bytes) ELSE buf
        /\ err' = e.err
  /\ pc' = "reencoded"
  /\ UNCHANGED <<obj, opts, src, tr, arg>>

NextDer == (\E o \in Options : FromDer(o)) \/ ToDerParsed

SpecDer == InitDer /\ [][NextDer]_vars

\* the same caller on inputs made of other bytes: 0x00, 0x02, 0x03, 0x1E
\* (BMPSTRING), 0x1F (tag number 31) and 0x82 ([2], two length bytes)
TagBytes == {0, 2, 3, 30, 31, 130}

InitTags ==
  /\ src \in ByteStrings(TagBytes, MaxLen)
  /\ buf = createBuffer(src)
  /\ pc = "input"
  /\ obj = <<>> /\ opts = NoOpts /\ err = <<>> /\ tr = NoTrace /\ arg = Num(0, 0)

SpecTags == InitTags /\ [][NextDer]_vars

\* the trees a caller builds with create(), without bitStringContents: at most
\* MaxNodes objects; a primitive holds a string of at most MaxStr bytes
TreeClasses == {UNIVERSAL, CONTEXT_SPECIFIC}
PrimTypes == {INTEGER, BITSTRING, BMPSTRING}
ListTypes == {SEQUENCE, BITSTRING}
TreeBytes == {0, 255}

Primitives ==
  {create(c, t, FALSE, FALSE, v, <<>>) :
     c \in TreeClasses, t \in PrimTypes, v \in ByteStrings(TreeBytes, MaxStr)}

RECURSIVE TreesOf(_)
RECURSIVE ForestsOf(_)

\* the trees of exactly n objects
TreesOf(n) ==
  (IF n = 1 THEN Primitives ELSE {}) \cup
  {create(c, t, k, TRUE, f, <<>>) :
     c \in TreeClasses, t \in ListTypes, k \in BOOLEAN, f \in ForestsOf(n - 1)}

\* the arrays of trees of n objects in all
ForestsOf(n) ==
  IF n = 0 THEN {<<>>}
  ELSE UNION {{<<t>> \o f : t \in TreesOf(j), f \in ForestsOf(n - j)} : j \in 1..n}

InitTree ==
  /\ \/ src \in Primitives
     \/ \E c \in TreeClasses, t \in ListTypes, k \in BOOLEAN :
          \E n \in 0..(MaxNodes - 1) : \E f \in ForestsOf(n) :
            src = create(c, t, k, TRUE, f, <<>>)
  /\ obj = <<src>>
  /\ pc = "built"
  /\ buf = createBuffer(<<>>) /\ opts = NoOpts /\ err = <<>> /\ tr = NoTrace
  /\ arg = Num(0, 0)

\* the caller encodes the tree it built: buf = toDer(obj)
ToDerBuilt ==
  /\ pc = "built"
  /\ \E e \in {toDer(obj[1])} :
        /\ buf' = IF e.err = <<>> THEN createBuffer(e.bytes) ELSE buf
        /\ err' = e.err
        /\ pc' = IF e.err = <<>> THEN "encoded" ELSE "failed"
  /\ UNCHANGED <<obj, opts, src, tr, arg>>

NextTree ==
  \/ ToDerBuilt
  \/ \E d \in BOOLEAN :
       FromDer([strict |-> TRUE, parseAllBytes |-> TRUE, decodeBitStrings |-> d])

SpecTree == InitTree /\ [][NextTree]_vars

\* the caller builds an OCTET STRING of n zero bytes, for every n up to
\* MaxValueLen and for the two lengths around the third length byte
BigLengths == {65535, 65536}

InitLen ==
  /\ \E n \in (0..MaxValueLen) \cup BigLengths :
       /\ arg = Num(0, n % 65536)
       /\ src = create(UNIVERSAL, OCTETSTRING, FALSE, FALSE, [i \in 1..n |-> 0], <<>>)
  /\ obj = <<src>>
  /\ pc = "built"
  /\ buf = createBuffer(<<>>) /\ opts = NoOpts /\ err = <<>> /\ tr = NoTrace

NextLen == ToDerBuilt

SpecLen == InitLen /\ [][NextLen]_vars

(***************************************************************************)
(* C1: fromDer(toDer(node)) with decodeBitStrings disabled equals() node,  *)
(* for a tree built with create() without bitStringContents.               *)
(***************************************************************************)
\* the claim as written: every tree comes back
C1_RoundTripEveryTree ==
  pc = "reparsed" /\ ~opts.decodeBitStrings =>
    err = <<>> /\ obj # <<>> /\ equals(obj[1], src, FALSE)

\* a value toDer shortens: 0x00 before a byte below 0x80, 0xFF before one from 0x80
RedundantLead(v) ==
  /\ Len(v) > 1
  /\ \/ (v[1] = 0 /\ v[2] < 128)
     \/ (v[1] = 255 /\ v[2] >= 128)

\* every object is constructed exactly when its value is a list, and no
\* primitive of tag number 2 has a redundant leading byte
RECURSIVE PlainTree(_)
PlainTree(t) ==
  /\ t.constructed = t.arr
  /\ IF t.arr
       THEN \A i \in 1..Len(t.value) : PlainTree(t.value[i])
       ELSE ~(t.type = INTEGER /\ RedundantLead(t.value))

\* C1 as amended: such a tree comes back equal, and all the bytes are read
C1_RoundTripPlainTree ==
  pc = "reparsed" /\ ~opts.decodeBitStrings /\ PlainTree(src) =>
    err = <<>> /\ obj # <<>> /\ equals(obj[1], src, FALSE) /\ length(buf) = 0

\* reached: a SEQUENCE holding a two-byte INTEGER came back
C1_Witness ==
  /\ pc = "reparsed" /\ ~opts.decodeBitStrings /\ PlainTree(src)
  /\ src.arr /\ Len(src.value) = 1
  /\ src.value[1].type = INTEGER /\ Len(src.value[1].value) = 2
  /\ obj # <<>> /\ equals(obj[1], src, FALSE)

(***************************************************************************)
(* Canonical DER, stated on the bytes alone (X.690): one tag byte with a   *)
(* tag number below 31, a definite length in the fewest bytes, and a       *)
(* content that, for a constructed value, is a row of canonical values     *)
(* and, for a UNIVERSAL primitive, obeys the rules of its type.            *)
(***************************************************************************)
\* the unsigned big-endian number the bytes of s spell
RECURSIVE BigEndian(_)
BigEndian(s) == IF s = <<>> THEN 0 ELSE BigEndian(SubSeq(s, 1, Len(s) - 1)) * 256 + s[Len(s)]

\* the header of the value s starts with: ok, its size hdr, the declared length len
DerHeader(s) ==
  IF Len(s) < 2 \/ s[2] = 128 THEN [ok |-> FALSE, hdr |-> 0, len |-> 0]
  ELSE IF s[2] < 128 THEN [ok |-> TRUE, hdr |-> 2, len |-> s[2]]
  ELSE LET k == s[2] - 128
       IN IF k > 3 \/ Len(s) < 2 + k \/ s[3] = 0 \/ BigEndian(SubSeq(s, 3, 2 + k)) < 128
            THEN [ok |-> FALSE, hdr |-> 0, len |-> 0]
            ELSE [ok |-> TRUE, hdr |-> 2 + k, len |-> BigEndian(SubSeq(s, 3, 2 + k))]

\* the rules of the UNIVERSAL types the codec knows, for a primitive content v
DerPrimitiveContent(type, v) ==
  IF type = INTEGER THEN Len(v) >= 1 /\ ~RedundantLead(v)
  ELSE IF type = BITSTRING THEN Len(v) >= 1 /\ v[1] <= 7 /\ (Len(v) = 1 => v[1] = 0)
  ELSE IF type = BMPSTRING THEN Len(v) % 2 = 0
  ELSE IF type = 1 THEN Len(v) = 1 /\ v[1] \in {0, 255}
  ELSE IF type = 5 THEN Len(v) = 0
  ELSE type \notin {NONE, SEQUENCE, 17}

RECURSIVE IsCanonicalDer(_)
RECURSIVE IsCanonicalDerRow(_)

IsCanonicalDer(s) ==
  LET h == DerHeader(s)
      v == SubSeq(s, h.hdr + 1, Len(s))
  IN /\ h.ok
     /\ h.hdr + h.len = Len(s)
     /\ s[1] % 32 # 31
     /\ IF (s[1] \div 32) % 2 = 1
          THEN /\ (s[1] \div 64 = 0 => s[1] % 32 \in {SEQUENCE, 17})
               /\ IsCanonicalDerRow(v)
          ELSE s[1] \div 64 = 0 => DerPrimitiveContent(s[1] % 32, v)

IsCanonicalDerRow(s) ==
  \/ s = <<>>
  \/ LET h == DerHeader(s)
     IN /\ h.ok
        /\ h.hdr + h.len <= Len(s)
        /\ IsCanonicalDer(SubSeq(s, 1, h.hdr + h.len))
        /\ IsCanonicalDerRow(SubSeq(s, h.hdr + h.len + 1, Len(s)))

DefaultsWith(d) == [strict |-> TRUE, parseAllBytes |-> TRUE, decodeBitStrings |-> d]

(***************************************************************************)
(* C2: toDer(fromDer(bytes, {decodeBitStrings: false})) is bytes again,    *)
(* for every canonical DER encoding.                                       *)
(***************************************************************************)
C2_ReencodeIsIdentity ==
  IsCanonicalDer(src) /\ opts = DefaultsWith(FALSE) =>
    /\ (pc = "parsed" => err = <<>> /\ obj # <<>>)
    /\ (pc = "reencoded" => err = <<>> /\ buf = createBuffer(src))

(***************************************************************************)
(* C3: with decodeBitStrings enabled, toDer of the unmodified result of    *)
(* fromDer is the canonical DER input again, reshaped BIT STRINGs included.*)
(***************************************************************************)
C3_ReencodeDecodedIsIdentity ==
  IsCanonicalDer(src) /\ opts = DefaultsWith(TRUE) =>
    /\ (pc = "parsed" => err = <<>> /\ obj # <<>>)
    /\ (pc = "reencoded" => err = <<>> /\ buf = createBuffer(src))

\* what holds of C2 and C3 on the inputs in which no value outside the class
\* UNIVERSAL has tag number 2 or 30
RECURSIVE NoForeignIntegerOrBmp(_)
NoForeignIntegerOrBmp(s) ==
  \/ s = <<>>
  \/ LET h == DerHeader(s)
         v == SubSeq(s, h.hdr + 1, h.hdr + h.len)
     IN /\ (s[1] \div 64 # 0 => s[1] % 32 \notin {INTEGER, BMPSTRING})
        /\ ((s[1] \div 32) % 2 = 1 => NoForeignIntegerOrBmp(v))
        /\ NoForeignIntegerOrBmp(SubSeq(s, h.hdr + h.len + 1, Len(s)))

ReencodeIsIdentityElsewhere ==
  /\ IsCanonicalDer(src) /\ NoForeignIntegerOrBmp(src)
  /\ opts.strict /\ opts.parseAllBytes
  =>
    /\ (pc = "parsed" => err = <<>> /\ obj # <<>>)
    /\ (pc = "reencoded" => err = <<>> /\ buf = createBuffer(src))

(***************************************************************************)
(* C4: in strict mode a value, at any depth, that declares a definite      *)
(* length greater than its remaining budget makes fromDer fail with        *)
(* TooFewBytesDerError, and no node is returned.                           *)
(***************************************************************************)
FailedTooFewBytesToRead ==
  /\ obj = <<>>
  /\ err # <<>>
  /\ err[1].name = "TooFewBytesDerError"
  /\ err[1].message = "Too few bytes to read ASN.1 value."
  /\ err[1].requested > err[1].remaining
  /\ err[1].available = length(buf)

DeclaresTooMuch(s) ==
  /\ Len(s) >= 2
  /\ \/ s[2] < 128 /\ s[2] > Len(s) - 2
     \/ /\ s[2] > 128 /\ s[2] - 128 <= 3 /\ Len(s) >= 2 + (s[2] - 128)
        /\ BigEndian(SubSeq(s, 3, 2 + (s[2] - 128))) > Len(s) - 2 - (s[2] - 128)

\* the bytes of s after the tag byte and the length bytes of its first value
ContentOf(s) ==
  SubSeq(s, (IF s[2] < 128 THEN 3 ELSE 3 + (s[2] - 128)), Len(s))

C6_ParseAllBytes ==
  pc = "parsed" =>
    LET r == fromDerRec(createBuffer(src), Len(src), 0, opts.strict,
                        opts.decodeBitStrings, NoTrace)
    IN r.err = <<>> =>
         /\ buf = r.buf
         /\ IF opts.parseAllBytes /\ Len(src) - r.buf.read # 0
              THEN /\ obj = <<>>
                   /\ err = <<[name |-> "UnparsedDerBytesRemainError",
                               message |-> "Unparsed DER bytes remain after ASN.1 parsing.",
                               byteCount |-> Len(src),
                               remaining |-> Len(src) - r.buf.read]>>
              ELSE obj = r.node /\ err = <<>>

\* reached: two bytes were left after the first value and fromDer threw
C6_Witness ==
  /\ pc = "parsed" /\ opts.parseAllBytes
  /\ err # <<>> /\ err[1].name = "UnparsedDerBytesRemainError"
  /\ err[1].byteCount = 4 /\ err[1].remaining = 2

\* reached: the same without parseAllBytes, the node returned
C6_WitnessLeftUnread ==
  pc = "parsed" /\ ~opts.parseAllBytes /\ obj # <<>> /\ length(buf) = 2

(***************************************************************************)
(* C7: a tag byte whose low five bits are all set makes the parse fail, so *)
(* every node fromDer returns has, at every depth, a tag number in 0..30.  *)
(***************************************************************************)
RECURSIVE TagNumbersBelow31(_)
TagNumbersBelow31(n) ==
  /\ n.type \in 0..30
  /\ (n.arr => \A i \in 1..Len(n.value) : TagNumbersBelow31(n.value[i]))

C7_NoTagNumber31 ==
  pc = "parsed" =>
    /\ (obj # <<>> => TagNumbersBelow31(obj[1]))
    /\ (Len(src) >= 2 /\ src[1] % 32 = 31 => err # <<>>)

(***************************************************************************)
(* C8: a failed speculative BIT STRING decode is invisible: fromDer with   *)
(* decodeBitStrings enabled succeeds on exactly the inputs on which it     *)
(* succeeds with the option disabled, reads as many bytes, and where no    *)
(* decode succeeded the nodes hold the raw bytes.                          *)
(***************************************************************************)
\* the tree with every reshaped BIT STRING turned back into the primitive that
\* holds its bitStringContents
RECURSIVE Unshaped(_)
Unshaped(n) ==
  IF n.arr /\ ~n.constructed
    THEN create(n.tagClass, n.type, FALSE, FALSE, n.bsc[1].s, n.bsc)
    ELSE IF n.arr
      THEN [n EXCEPT !.value = [i \in 1..Len(n.value) |-> Unshaped(n.value[i])]]
      ELSE n

\* a and b are the same object, field by field and child by child
RECURSIVE SameObject(_, _)
SameObject(a, b) ==
  /\ a.tagClass = b.tagClass /\ a.type = b.type
  /\ a.constructed = b.constructed /\ a.composed = b.composed
  /\ a.arr = b.arr
  /\ a.bsc = b.bsc
  /\ Len(a.value) = Len(b.value)
  /\ IF a.arr
       THEN \A i \in 1..Len(a.value) : SameObject(a.value[i], b.value[i])
       ELSE a.value = b.value
  /\ Len(a.original) = Len(b.original)
  /\ (a.original # <<>> => SameObject(a.original[1], b.original[1]))

C8_FailedDecodeInvisible ==
  pc = "parsed" /\ opts.decodeBitStrings =>
    LET r == fromDer(createBuffer(src), [opts EXCEPT !.decodeBitStrings = FALSE])
    IN /\ err = r.err
       /\ buf = r.buf
       /\ Len(obj) = Len(r.node)
       /\ (obj # <<>> => SameObject(Unshaped(obj[1]), r.node[1]))

\* reached: a decode was tried, threw, and the BIT STRING was returned raw
C8_Witness ==
  /\ pc = "parsed" /\ opts.decodeBitStrings /\ tr.swallowed
  /\ obj # <<>> /\ obj[1].type = BITSTRING /\ ~obj[1].arr
  /\ obj[1].value = SubSeq(src, 3, Len(src))

(***************************************************************************)
(* C9: toDer emits the length n of a value as the byte n when n <= 127 and *)
(* otherwise as 0x80|k and the k big-endian base-256 digits of n, k least. *)
(***************************************************************************)
\* the least k with n < 256^k
RECURSIVE DigitsNeeded(_)
DigitsNeeded(n) == IF n < 256 THEN 1 ELSE 1 + DigitsNeeded(n \div 256)

ExpectedLength(n) ==
  IF n <= 127 THEN <<n>>
  ELSE LET k == DigitsNeeded(n)
       IN <<128 + k>> \o [i \in 1..k |-> (n \div Pow2(8 * (k - i))) % 256]

C9_LengthPrefix ==
  pc = "encoded" /\ ~src.arr =>
    LET n == Len(src.value)
    IN /\ err = <<>>
       /\ buf.read = 0
       /\ buf.data = <<Or(src.tagClass, src.type)>> \o ExpectedLength(n) \o src.value

\* reached: 128 bytes were given the length 0x81 0x80, and 65536 a third byte
C9_Witness ==
  /\ pc = "encoded" /\ Len(src.value) = 128
  /\ SubSeq(buf.data, 1, 3) = <<4, 129, 128>>

C9_WitnessThreeBytes ==
  /\ pc = "encoded" /\ Len(src.value) = 65536
  /\ SubSeq(buf.data, 1, 5) = <<4, 131, 1, 0, 0>>

(***************************************************************************)
(* C10: integerToDer(x) is the big-endian two's-complement form of x in    *)
(* the fewest of 1..4 bytes that hold x when x is in the signed 32-bit     *)
(* range, and otherwise fails with an error that carries x.                *)
(***************************************************************************)
\* -2^(8k-1) <= x < 2^(8k-1)
FitsBytes(x, k) ==
  LET half == IF k = 1 THEN Num(0, 128)
              ELSE IF k = 2 THEN Num(0, 32768)
              ELSE IF k = 3 THEN Num(128, 0)
              ELSE Num(32768, 0)
      negHalf == IF k = 1 THEN Num(0 - 1, 65408)
                 ELSE IF k = 2 THEN Num(0 - 1, 32768)
                 ELSE IF k = 3 THEN Num(0 - 128, 0)
                 ELSE Num(0 - 32768, 0)
  IN ~NumLess(x, negHalf) /\ NumLess(x, half)

\* x mod 2^(8k) as k base-256 digits, most significant first
TwosComplement(x, k) ==
  LET m == IF NumLess(x, Num(0, 0))
             THEN NumAdd(x, IF k = 1 THEN Num(0, 256)
                            ELSE IF k = 2 THEN Num(1, 0)
                            ELSE IF k = 3 THEN Num(256, 0)
                            ELSE Num(65536, 0))
             ELSE x
      digits == <<m.hi \div 256, m.hi % 256, m.lo \div 256, m.lo % 256>>
  IN SubSeq(digits, 5 - k, 4)

C10_IntegerToDerMinimal ==
  pc = "intDone" =>
    IF \E k \in 1..4 : FitsBytes(arg, k)
      THEN LET k == CHOOSE j \in 1..4 : FitsBytes(arg, j) /\ \A i \in 1..(j - 1) : ~FitsBytes(arg, i)
           IN err = <<>> /\ buf = [data |-> TwosComplement(arg, k), read |-> 0]
      ELSE /\ err # <<>>
           /\ err[1].name = "Error"
           /\ err[1].integer = arg
           /\ buf.data = <<>>

\* reached: -129 was encoded as FF 7F, and 2^31 was refused
C10_Witness ==
  /\ pc = "intDone"
  /\ arg = Num(0 - 1, 65407)
  /\ buf.data = <<255, 127>>

C10_WitnessOverflow == pc = "intDone" /\ arg = Num(32768, 0) /\ err # <<>>

(***************************************************************************)
(* validate (src/src/asn1.ts).  A schema entry is a record: tagClass,      *)
(* type and constructed are <<>> when the entry leaves them out and        *)
(* <<x>> when it specifies x; value is <<>> when the entry has no array of *)
(* sub entries and <<list>> when it has one; the four capture fields are   *)
(* <<>> or <<key>>.  The value under validation is an Asn1 record, or      *)
(* [char |-> c] for the one-character string that obj.value[j] yields when *)
(* obj.value is a string.  The validator state st carries the capture map, *)
(* the errors array, the thrown error and the list of (entry, object)      *)
(* pairs for which a call returned true.                                   *)
(***************************************************************************)
CaptureKeys == {"v", "a", "c", "b"}

isChar(o) == "char" \in DOMAIN o

Undefined == [kind |-> "undefined"]

\* obj.tagClass === v.tagClass: a one-character string has no such property,
\* so that it equals only a tagClass the entry leaves out; the same for type
\* and constructed
sameTagClass(o, v) ==
  IF isChar(o) THEN v.tagClass = <<>>
  ELSE v.tagClass # <<>> /\ o.tagClass = v.tagClass[1]

sameType(o, v) ==
  IF isChar(o) THEN v.type = <<>>
  ELSE v.type # <<>> /\ o.type = v.type[1]

sameConstructed(o, v) ==
  IF isChar(o) THEN v.constructed = <<>>
  ELSE v.constructed # <<>> /\ o.constructed = v.constructed[1]

pushError(st, name, kind) ==
  IF st.hasErrors
    THEN [st EXCEPT !.errors = Append(@, [name |-> name, kind |-> kind])]
    ELSE st

\* capture[key] = x
setCapture(st, key, x) == [st EXCEPT !.capture = [@ EXCEPT ![key] = <<x>>]]

valueOf(o) ==
  IF isChar(o) THEN Undefined
  ELSE IF o.arr THEN [kind |-> "array", val |-> o.value]
  ELSE [kind |-> "string", val |-> o.value]

captureValue(o, v, st) ==
  IF v.capture # <<>> THEN setCapture(st, v.capture[1], valueOf(o)) ELSE st

\* a captureAsn1 that stores the value in place of the object
captureAsn1AsValue(o, v, st) ==
  IF v.captureAsn1 # <<>> THEN setCapture(st, v.captureAsn1[1], valueOf(o)) ELSE st

captureAsn1(o, v, st) ==
  IF v.captureAsn1 # <<>>
    THEN setCapture(st, v.captureAsn1[1], [kind |-> "asn1", val |-> o])
    ELSE st

\* 'bitStringContents' in obj throws a TypeError when obj is a string
inThrows(o, key) == key # <<>> /\ isChar(o)

hasBitStringContents(o) == ~isChar(o) /\ o.bsc # <<>>

captureBitStringContents(o, v, st) ==
  IF inThrows(o, v.captureBitStringContents)
    THEN [st EXCEPT !.err = <<TypeError("Cannot use 'in' operator")>>]
  ELSE IF v.captureBitStringContents # <<>> /\ hasBitStringContents(o)
    THEN setCapture(st, v.captureBitStringContents[1],
                    IF o.bsc[1].def THEN [kind |-> "string", val |-> o.bsc[1].s]
                    ELSE Undefined)
  ELSE st

\* a test that finds no bitStringContents too short
tooShortForValueNever(s) == FALSE

\* obj.bitStringContents.length < 2
tooShortForValue(s) == Len(s) < 2

captureBitStringValue(o, v, st) ==
  IF st.err # <<>> THEN st
  ELSE IF inThrows(o, v.captureBitStringValue)
    THEN [st EXCEPT !.err = <<TypeError("Cannot use 'in' operator")>>]
  ELSE IF v.captureBitStringValue # <<>> /\ hasBitStringContents(o)
    THEN IF ~o.bsc[1].def
           THEN [st EXCEPT !.err = <<TypeError("Cannot read properties of undefined")>>]
         ELSE IF tooShortForValue(o.bsc[1].s)
           THEN setCapture(st, v.captureBitStringValue[1], [kind |-> "string", val |-> <<>>])
         ELSE IF CharCodeAt(o.bsc[1].s, 0) # 0
           THEN [st EXCEPT !.err =
                   <<[name |-> "Error",
                      message |-> "captureBitStringValue only supported for zero unused bits"]>>]
         ELSE setCapture(st, v.captureBitStringValue[1],
                         [kind |-> "string",
                          val |-> Slice(o.bsc[1].s, 1, Len(o.bsc[1].s))])
  ELSE st

\* the captures of one entry, made once its sub values have been handled
validateCapture(o, v, r) ==
  IF r.st.err # <<>> \/ ~r.rval \/ ~r.st.hasCapture
    THEN r
    ELSE [rval |-> TRUE,
          st |-> captureBitStringValue(o, v,
                   captureBitStringContents(o, v,
                     captureAsn1(o, v, captureValue(o, v, r.st))))]

\* the return of one call: a call that returns true is recorded
validateReturn(o, v, r) ==
  IF r.st.err = <<>> /\ r.rval
    THEN [r EXCEPT !.st.log = Append(@, [name |-> v.name, obj |-> o])]
    ELSE r

\* obj.value[j]: <<>> when it is undefined, <<x>> otherwise
childAt(o, j) ==
  IF j >= Len(o.value) THEN <<>>
  ELSE IF o.arr THEN <<o.value[j + 1]>>
  ELSE <<[char |-> o.value[j + 1]]>>

RECURSIVE validate(_, _, _)
RECURSIVE validateLoop(_, _, _, _, _, _)
RECURSIVE validateStep(_, _, _, _, _, _, _)

\* a round that fails takes every capture back
validateStepTakingBack(o, v, i, j, rval, advance, st) ==
  IF st.err # <<>> THEN [rval |-> FALSE, st |-> st]
  ELSE validateLoop(o, v, i + 1, (IF advance THEN j + 1 ELSE j), rval,
                    IF rval THEN st
                    ELSE pushError([st EXCEPT !.capture = [k \in CaptureKeys |-> <<>>]],
                                   v.name, "length"))

\* the rest of one round of the loop, given what the round made of rval
validateStep(o, v, i, j, rval, advance, st) ==
  IF st.err # <<>> THEN [rval |-> FALSE, st |-> st]
  ELSE validateLoop(o, v, i + 1, (IF advance THEN j + 1 ELSE j), rval,
                    IF rval THEN st ELSE pushError(st, v.name, "length"))

validateChild(o, v, i, j, optional, r) ==
  validateStep(o, v, i, j, r.rval \/ optional, r.rval, r.st)

\* a loop that goes on after a failure
loopContinuesAfterFailure(rval, i, n) == i < n

\* rval && i < v.value.length
loopContinues(rval, i, n) == rval /\ i < n

validateLoop(o, v, i, j, rval, st) ==
  IF ~loopContinues(rval, i, Len(v.value[1])) THEN [rval |-> rval, st |-> st]
  ELSE IF isChar(o)
    THEN [rval |-> FALSE,
          st |-> [st EXCEPT !.err = <<TypeError("Cannot read properties of undefined")>>]]
  ELSE IF childAt(o, j) # <<>>
    THEN validateChild(o, v, i, j, v.value[1][i + 1].optional,
                       validate(childAt(o, j)[1], v.value[1][i + 1], st))
  ELSE validateStep(o, v, i, j, v.value[1][i + 1].optional, FALSE, st)

validateMismatch(o, v, st) ==
  LET s1 == IF ~sameTagClass(o, v) THEN pushError(st, v.name, "tagClass") ELSE st
  IN IF ~sameType(o, v) THEN pushError(s1, v.name, "type") ELSE s1

validate(o, v, st) ==
  IF (sameTagClass(o, v) \/ v.tagClass = <<>>) /\ (sameType(o, v) \/ v.type = <<>>)
    THEN IF sameConstructed(o, v) \/ v.constructed = <<>>
           THEN validateReturn(o, v,
                  validateCapture(o, v,
                    IF v.value # <<>>
                      THEN validateLoop(o, v, 0, 0, TRUE, st)
                      ELSE [rval |-> TRUE, st |-> st]))
           ELSE [rval |-> FALSE, st |-> pushError(st, v.name, "constructed")]
    ELSE [rval |-> FALSE, st |-> validateMismatch(o, v, st)]

(***************************************************************************)
(* The caller of validate: it parses a DER value with the default options  *)
(* and validates the object against a schema, as privateKeyFromAsn1 does.  *)
(***************************************************************************)
\* the sub entries a schema lists at most
MaxEntries == 2

\* what an entry specifies of the object: nothing, a primitive UNIVERSAL
\* INTEGER, a primitive UNIVERSAL BIT STRING, a constructed UNIVERSAL INTEGER
\* or a constructed UNIVERSAL SEQUENCE
Shape(tagClass, type, constructed) ==
  [tagClass |-> tagClass, type |-> type, constructed |-> constructed]

AnyShape == Shape(<<>>, <<>>, <<>>)
IntShape == Shape(<<UNIVERSAL>>, <<INTEGER>>, <<FALSE>>)
BitsShape == Shape(<<UNIVERSAL>>, <<BITSTRING>>, <<FALSE>>)
ConsIntShape == Shape(<<UNIVERSAL>>, <<INTEGER>>, <<TRUE>>)
SeqShape == Shape(<<UNIVERSAL>>, <<SEQUENCE>>, <<TRUE>>)

\* what an entry captures: nothing, the value under 'v', or the value under
\* 'v', the object under 'a', the bitStringContents under 'c' and the bit
\* string value under 'b'
NoCaptures ==
  [capture |-> <<>>, captureAsn1 |-> <<>>,
   captureBitStringContents |-> <<>>, captureBitStringValue |-> <<>>]
ValueCapture == [NoCaptures EXCEPT !.capture = <<"v">>]
AllCaptures ==
  [capture |-> <<"v">>, captureAsn1 |-> <<"a">>,
   captureBitStringContents |-> <<"c">>, captureBitStringValue |-> <<"b">>]

Entry(name, shape, optional, caps, value) ==
  [name |-> name, tagClass |-> shape.tagClass, type |-> shape.type,
   constructed |-> shape.constructed, optional |-> optional, value |-> value,
   capture |-> caps.capture, captureAsn1 |-> caps.captureAsn1,
   captureBitStringContents |-> caps.captureBitStringContents,
   captureBitStringValue |-> caps.captureBitStringValue]

\* the entries without sub entries, before they are given a name
Leaves ==
  {<<AnyShape, NoCaptures>>, <<AnyShape, AllCaptures>>,
   <<IntShape, NoCaptures>>, <<IntShape, ValueCapture>>,
   <<BitsShape, NoCaptures>>, <<BitsShape, AllCaptures>>,
   <<ConsIntShape, NoCaptures>>} \X BOOLEAN

EntryNames == <<"e1", "e2", "e3", "e4">>

\* the lists of at most n leaves, the i-th one named EntryNames[i]
EntryLists(n) ==
  {[i \in 1..Len(l) |-> Entry(EntryNames[i], l[i][1][1], l[i][2], l[i][1][2], <<>>)] :
     l \in UNION {[1..k -> Leaves] : k \in 0..n}}

Schemas ==
  {Entry("top", SeqShape, FALSE, c, <<l>>) :
     c \in {NoCaptures, ValueCapture}, l \in EntryLists(MaxEntries)} \cup
  {Entry("top", s, FALSE, c, <<>>) :
     s \in {AnyShape, IntShape, BitsShape}, c \in {NoCaptures, AllCaptures}} \cup
  {Entry("top", SeqShape, FALSE, NoCaptures,
         <<<<Entry("sub", s, o, ValueCapture, <<l>>)>>>>) :
     s \in {SeqShape, AnyShape}, o \in BOOLEAN, l \in EntryLists(1)} \cup
  {Entry("top", SeqShape, FALSE, NoCaptures,
         <<<<Entry("sub", AnyShape, o, NoCaptures,
                   <<<<Entry("e1", AnyShape, FALSE, NoCaptures, <<l>>)>>>>)>>>>) :
     o \in BOOLEAN, l \in EntryLists(1)}

\* the DER values the objects are parsed from
ValInputs ==
  {<<48, 3, 2, 1, 5>>, <<48, 0>>, <<2, 1, 5>>, <<4, 1, 5>>,
   <<3, 0>>, <<3, 1, 0>>, <<3, 1, 5>>, <<3, 2, 0, 5>>, <<3, 2, 3, 8>>,
   <<3, 4, 0, 2, 1, 5>>,
   <<48, 3, 3, 1, 5>>, <<48, 4, 3, 2, 3, 8>>,
   <<48, 6, 2, 1, 5, 2, 1, 6>>, <<48, 7, 2, 1, 5, 3, 2, 0, 5>>,
   <<48, 7, 3, 2, 0, 5, 2, 1, 5>>, <<48, 5, 48, 3, 2, 1, 5>>}

\* the capture object and the errors array a caller passes, or leaves out
NewState(hasCapture, hasErrors) ==
  [capture |-> [k \in CaptureKeys |-> <<>>], errors |-> <<>>,
   hasCapture |-> hasCapture, hasErrors |-> hasErrors,
   err |-> <<>>, log |-> <<>>]

InitVal ==
  /\ src \in ValInputs
  /\ buf = createBuffer(src)
  /\ pc = "input"
  /\ arg \in {[v |-> v, st |-> NewState(c, e), rval |-> <<>>] :
                v \in Schemas, c \in BOOLEAN, e \in BOOLEAN}
  /\ obj = <<>> /\ opts = NoOpts /\ err = <<>> /\ tr = NoTrace

\* the caller validates the object it parsed: validate(obj, v, capture, errors)
Validate ==
  /\ pc = "parsed"
  /\ obj # <<>>
  /\ \E r \in {validate(obj[1], arg.v, arg.st)} :
        /\ arg' = [arg EXCEPT !.st = r.st, !.rval = <<r.rval>>]
        /\ err' = r.st.err
  /\ pc' = "validated"
  /\ UNCHANGED <<obj, buf, opts, src, tr>>

NextVal == FromDer(NoOpts) \/ Validate

SpecVal == InitVal /\ [][NextVal]_vars

(***************************************************************************)
(* C11: whenever validate returns true with a capture map, every schema    *)
(* entry that matched an object and declares a capture key has stored that *)
(* object's value under the key (the object itself under captureAsn1, its  *)
(* bitStringContents under captureBitStringContents): the map holds, under *)
(* every declared key, what the last matching entry that declares the key  *)
(* has to store.                                                           *)
(***************************************************************************)
\* every entry of a schema
RECURSIVE EntriesOf(_)
EntriesOf(v) ==
  {v} \cup (IF v.value = <<>> THEN {}
            ELSE UNION {EntriesOf(v.value[1][i]) : i \in 1..Len(v.value[1])})

EntryNamed(v, name) == CHOOSE e \in EntriesOf(v) : e.name = name

\* the keys an entry writes when it matches the object o
KeysWritten(e, o) ==
  {e.capture[i] : i \in 1..Len(e.capture)} \cup
  {e.captureAsn1[i] : i \in 1..Len(e.captureAsn1)} \cup
  (IF ~isChar(o) /\ o.bsc # <<>>
     THEN {e.captureBitStringContents[i] : i \in 1..Len(e.captureBitStringContents)} \cup
          {e.captureBitStringValue[i] : i \in 1..Len(e.captureBitStringValue)}
     ELSE {})

Holds(capture, key, kind, val) ==
  /\ capture[key] # <<>>
  /\ capture[key][1].kind = kind
  /\ capture[key][1].val = val

\* the matches are listed in the order in which they were made
LastWriter(v, log, i, key) ==
  \A k \in (i + 1)..Len(log) : key \notin KeysWritten(EntryNamed(v, log[k].name), log[k].obj)

C11_CapturesStored ==
  pc = "validated" /\ arg.rval = <<TRUE>> /\ arg.st.hasCapture =>
    \A i \in 1..Len(arg.st.log) :
      LET e == EntryNamed(arg.v, arg.st.log[i].name)
          o == arg.st.log[i].obj
      IN ~isChar(o) =>
           /\ (e.capture # <<>> /\ LastWriter(arg.v, arg.st.log, i, e.capture[1]) =>
                 Holds(arg.st.capture, e.capture[1],
                       (IF o.arr THEN "array" ELSE "string"), o.value))
           /\ (e.captureAsn1 # <<>> /\ LastWriter(arg.v, arg.st.log, i, e.captureAsn1[1]) =>
                 Holds(arg.st.capture, e.captureAsn1[1], "asn1", o))
           /\ (e.captureBitStringContents # <<>> /\ o.bsc # <<>> /\ o.bsc[1].def
                 /\ LastWriter(arg.v, arg.st.log, i, e.captureBitStringContents[1]) =>
                 Holds(arg.st.capture, e.captureBitStringContents[1], "string", o.bsc[1].s))

\* reached: SEQUENCE [INTEGER captured as 'v'] against the parsed SEQUENCE
\* { INTEGER 5 } returns true with capture['v'] the byte 0x05
C11_Witness ==
  /\ pc = "validated" /\ arg.rval = <<TRUE>> /\ arg.st.hasCapture
  /\ src = <<48, 3, 2, 1, 5>>
  /\ arg.v = Entry("top", SeqShape, FALSE, NoCaptures,
                   <<<<Entry("e1", IntShape, FALSE, ValueCapture, <<>>)>>>>)
  /\ arg.st.capture["v"] = <<[kind |-> "string", val |-> <<5>>]>>

\* reached: an object and its bitStringContents are captured too
C11_WitnessBitString ==
  /\ pc = "validated" /\ arg.rval = <<TRUE>>
  /\ src = <<48, 7, 2, 1, 5, 3, 2, 0, 5>>
  /\ arg.st.capture["a"] = <<[kind |-> "asn1", val |-> obj[1].value[2]]>>
  /\ arg.st.capture["c"] = <<[kind |-> "string", val |-> <<0, 5>>]>>

(***************************************************************************)
(* C12: validate returns true exactly when the object matches the entry's  *)
(* specified tagClass, type and constructed and, walking the entry's sub   *)
(* entries in order with an index j into the object's children that starts *)
(* at 0, every required sub entry matches the child at j, which advances   *)
(* j, while an optional sub entry that does not match, or for which no     *)
(* child is left, is skipped without advancing j; children left over do    *)
(* not make it fail.                                                       *)
(***************************************************************************)
\* the children of an object: the members of its value when that is a list
ChildrenOf(o) == IF o.arr THEN o.value ELSE <<>>

HeadMatches(o, e) ==
  /\ (e.tagClass # <<>> => o.tagClass = e.tagClass[1])
  /\ (e.type # <<>> => o.type = e.type[1])
  /\ (e.constructed # <<>> => o.constructed = e.constructed[1])

RECURSIVE Matches(_, _)
RECURSIVE Walk(_, _, _, _)
Walk(kids, entries, i, j) ==
  IF i > Len(entries) THEN TRUE
  ELSE IF j <= Len(kids) /\ Matches(kids[j], entries[i])
    THEN Walk(kids, entries, i + 1, j + 1)
  ELSE entries[i].optional /\ Walk(kids, entries, i + 1, j)

Matches(o, e) ==
  /\ HeadMatches(o, e)
  /\ (e.value # <<>> => Walk(ChildrenOf(o), e.value[1], 1, 1))

C12_ReturnsTrueIffMatches ==
  pc = "validated" /\ err = <<>> => (arg.rval[1] <=> Matches(obj[1], arg.v))

\* an entry that expects no sub entry of an object whose value is a string
RECURSIVE NoEntryUnderString(_, _)
NoEntryUnderString(o, e) ==
  e.value # <<>> =>
    IF o.arr
      THEN \A i \in 1..Len(e.value[1]), j \in 1..Len(o.value) :
             NoEntryUnderString(o.value[j], e.value[1][i])
      ELSE o.value = <<>> \/ e.value[1] = <<>>

\* the walk is the one described wherever the entries with sub entries meet
\* objects whose value is a list
ReturnsTrueIffMatchesLists ==
  pc = "validated" /\ err = <<>> /\ NoEntryUnderString(obj[1], arg.v) =>
    (arg.rval[1] <=> Matches(obj[1], arg.v))

(***************************************************************************)
(* C13: when a required sub entry fails to match, validate records the     *)
(* failure and still examines every remaining sub entry of that list, so   *)
(* that the errors array receives the diagnostics of every later sub entry *)
(* that mismatches, not only those of the first.                           *)
(***************************************************************************)
\* the first required sub entry that fails in the walk and the index j of the
\* child it was held against; i is 0 when no required sub entry fails
RECURSIVE FirstFailure(_, _, _, _)
FirstFailure(kids, entries, i, j) ==
  IF i > Len(entries) THEN [i |-> 0, j |-> j]
  ELSE IF j <= Len(kids) /\ Matches(kids[j], entries[i])
    THEN FirstFailure(kids, entries, i + 1, j + 1)
  ELSE IF entries[i].optional THEN FirstFailure(kids, entries, i + 1, j)
  ELSE [i |-> i, j |-> j]

Named(list, name) == \E k \in 1..Len(list) : list[k].name = name

\* the root entry lists sub entries, matches the root object by its tag, and
\* the errors array was passed
WalkedWithErrors ==
  /\ pc = "validated" /\ err = <<>> /\ arg.st.hasErrors
  /\ arg.v.value # <<>>
  /\ HeadMatches(obj[1], arg.v)
  /\ NoEntryUnderString(obj[1], arg.v)

C13_LaterDiagnostics ==
  WalkedWithErrors =>
    LET kids == ChildrenOf(obj[1])
        entries == arg.v.value[1]
        f == FirstFailure(kids, entries, 1, 1)
    IN f.i > 0 =>
         \A k \in (f.i + 1)..Len(entries) :
           f.j <= Len(kids) /\ ~Matches(kids[f.j], entries[k]) =>
             Named(arg.st.errors, entries[k].name)

\* C13 as the code has it: the walk ends at the first required sub entry that
\* fails; the errors array ends with the diagnostic of that failure, and no
\* later sub entry is examined, so that none leaves a diagnostic or a capture
C13_StopsAtFirstFailure ==
  WalkedWithErrors =>
    LET kids == ChildrenOf(obj[1])
        entries == arg.v.value[1]
        f == FirstFailure(kids, entries, 1, 1)
    IN f.i > 0 =>
         /\ arg.rval = <<FALSE>>
         /\ arg.st.errors # <<>>
         /\ arg.st.errors[Len(arg.st.errors)] = [name |-> arg.v.name, kind |-> "length"]
         /\ \A k \in (f.i + 1)..Len(entries) :
              /\ ~Named(arg.st.errors, entries[k].name)
              /\ ~Named(arg.st.log, entries[k].name)

\* reached: the first sub entry is required and fails, the second mismatches
\* too, and the errors array holds the diagnostics of the first only
C13_Witness ==
  /\ WalkedWithErrors
  /\ src = <<48, 3, 2, 1, 5>>
  /\ Len(arg.v.value[1]) = 2
  /\ FirstFailure(obj[1].value, arg.v.value[1], 1, 1).i = 1
  /\ ~Matches(obj[1].value[1], arg.v.value[1][2])
  /\ arg.st.errors = <<[name |-> "e1", kind |-> "constructed"],
                       [name |-> "top", kind |-> "length"]>>

(***************************************************************************)
(* C14: for a matched object with bitStringContents and an entry that      *)
(* declares captureBitStringValue, validate stores the bitStringContents   *)
(* without their first byte only if that unused-bits byte is exactly 0;    *)
(* for every bitStringContents whose unused-bits byte is nonzero it throws *)
(* instead of returning false or capturing a value.                        *)
(***************************************************************************)
\* the root entry has no sub entries, declares captureBitStringValue and
\* matches the root object, which has bitStringContents; a capture object
\* was passed
BitStringValueAsked ==
  /\ pc = "validated" /\ arg.st.hasCapture
  /\ arg.v.value = <<>> /\ arg.v.captureBitStringValue # <<>>
  /\ HeadMatches(obj[1], arg.v)
  /\ obj[1].bsc # <<>> /\ obj[1].bsc[1].def

UnusedBitsError ==
  <<[name |-> "Error",
     message |-> "captureBitStringValue only supported for zero unused bits"]>>

C14_NonzeroUnusedThrows ==
  BitStringValueAsked =>
    LET s == obj[1].bsc[1].s
        key == arg.v.captureBitStringValue[1]
    IN /\ (arg.st.capture[key] # <<>> /\ arg.st.capture[key][1].val # <<>>
             => s[1] = 0 /\ arg.st.capture[key][1].val = Tail(s))
       /\ (s # <<>> /\ s[1] # 0
             => err = UnusedBitsError /\ arg.st.capture[key] = <<>>)

\* C14 as the code has it: bitStringContents of fewer than two bytes are
\* captured as the empty string whatever their byte is; longer ones are
\* captured without their first byte when that byte is 0 and make validate
\* throw when it is not
C14_BitStringValue ==
  BitStringValueAsked =>
    LET s == obj[1].bsc[1].s
        key == arg.v.captureBitStringValue[1]
    IN IF Len(s) < 2
         THEN /\ err = <<>> /\ arg.rval = <<TRUE>>
              /\ arg.st.capture[key] = <<[kind |-> "string", val |-> <<>>]>>
       ELSE IF s[1] = 0
         THEN /\ err = <<>> /\ arg.rval = <<TRUE>>
              /\ arg.st.capture[key] = <<[kind |-> "string", val |-> Tail(s)]>>
       ELSE /\ err = UnusedBitsError
            /\ arg.st.capture[key] = <<>>
            /\ arg.st.log = <<>>

\* reached: bitStringContents of one nonzero byte are captured as the empty
\* string and nothing is thrown
C14_Witness ==
  /\ BitStringValueAsked
  /\ obj[1].bsc[1].s = <<5>>
  /\ err = <<>>
  /\ arg.st.capture["b"] = <<[kind |-> "string", val |-> <<>>]>>

\* reached: two bytes with three unused bits make validate throw
C14_WitnessThrown ==
  /\ BitStringValueAsked
  /\ obj[1].bsc[1].s = <<3, 8>>
  /\ err = UnusedBitsError

\* reached: the value of a BIT STRING with no unused bits is captured
C14_WitnessStored ==
  /\ BitStringValueAsked
  /\ obj[1].bsc[1].s = <<0, 5>>
  /\ arg.st.capture["b"] = <<[kind |-> "string", val |-> <<5>>]>>

(***************************************************************************)
(* The other operations of ByteStringBuffer (src/src/util.ts) and a caller *)
(* that applies them, in any order, to a new buffer.                       *)
(***************************************************************************)
NumToInt(a) == a.hi * 65536 + a.lo

NumOf(x) == Num(x \div 65536, x % 65536)

\* b repeated n times, as the doubling loop of fillWithByte builds it
fillWithByte(b, byte, n) == putBytes(b, [i \in 1..n |-> byte % 65536])

putInt24(b, i) == putBytes(b, <<ShrByte(i, 16), ShrByte(i, 8), ShrByte(i, 0)>>)

\* a putInt32 that writes the low byte first
putInt32LittleEndian(b, i) ==
  putBytes(b, <<ShrByte(i, 0), ShrByte(i, 8), ShrByte(i, 16), ShrByte(i, 24)>>)

putInt32(b, i) ==
  putBytes(b, <<ShrByte(i, 24), ShrByte(i, 16), ShrByte(i, 8), ShrByte(i, 0)>>)

getInt24(b) ==
  LET b0 == ToInt(CharCodeAt(b.data, b.read))
      b1 == ToInt(CharCodeAt(b.data, b.read + 1))
      b2 == ToInt(CharCodeAt(b.data, b.read + 2))
  IN [val |-> Xor(Xor(b0 * 65536, b1 * 256), b2), buf |-> [b EXCEPT !.read = @ + 3]]

\* b0 << 24 is a signed 32-bit number whose low 24 bits are 0, so that the
\* exclusive or with the three low bytes is a sum
getInt32(b) ==
  LET b0 == ToInt(CharCodeAt(b.data, b.read))
      b1 == ToInt(CharCodeAt(b.data, b.read + 1))
      b2 == ToInt(CharCodeAt(b.data, b.read + 2))
      b3 == ToInt(CharCodeAt(b.data, b.read + 3))
      top == (IF b0 % 256 >= 128 THEN (b0 % 256) - 256 ELSE b0 % 256) * 16777216
  IN [val |-> top + Xor(Xor(b1 * 65536, b2 * 256), b3),
      buf |-> [b EXCEPT !.read = @ + 4]]

\* max << 1 in 32 bits
Shl1(max) == NumToInt32(NumAdd(max, max))

\* a sign test that never subtracts
signOfNone(x, n) == x

\* the sign test of getSignedInt on the number x that getInt returned
signOf(x, n) ==
  IF x >= NumToInt(TwoShl(n - 2)) THEN x - NumToInt(Shl1(TwoShl(n - 2))) ELSE x

getSigned(n, r) ==
  IF r.err # <<>> \/ r.nan THEN r ELSE [r EXCEPT !.val = signOf(r.val, n)]

getSignedInt(b, n) == getSigned(n, getInt(b, n))

at(b, i) == CharCodeAt(b.data, b.read + i)

setAt(b, i, v) ==
  [b EXCEPT !.data = Slice(b.data, 0, b.read + i) \o <<v % 65536>> \o
                     Slice(b.data, b.read + i + 1, Len(b.data))]

last(b) == CharCodeAt(b.data, Len(b.data) - 1)

copyBuffer(b) == [createBuffer(b.data) EXCEPT !.read = b.read]

compact(b) ==
  IF b.read > 0 THEN [data |-> Slice(b.data, b.read, Len(b.data)), read |-> 0] ELSE b

truncate(b, count) ==
  [data |-> Slice(b.data, b.read, b.read + Max(0, length(b) - count)), read |-> 0]

\* the bytes a buffer holds at most, and how far past them a read may go
MaxData == 4
MaxOver == 4

BufBytes == {0, 255}
Counts == 0..2
Widths == {8, 16, 24, 32}
Words == {Num(0, 0), Num(0, 255), Num(0 - 1, 65535)}

InitBuf ==
  /\ buf = createBuffer(<<>>)
  /\ pc = "buffer"
  /\ arg = [op |-> "new", count |-> 0, before |-> buf, val |-> <<>>]
  /\ obj = <<>> /\ opts = NoOpts /\ err = <<>> /\ src = <<>> /\ tr = NoTrace

\* one operation: the buffer it leaves and what it returned
Applied(op, count, b, val) ==
  /\ pc = "buffer"
  /\ buf' = b
  /\ arg' = [op |-> op, count |-> count, before |-> buf, val |-> val]
  /\ UNCHANGED <<obj, opts, err, pc, src, tr>>

Room(n) == Len(buf.data) + n <= MaxData
Reach(n) == buf.read + n <= Len(buf.data) + MaxOver

PutByte == \E v \in BufBytes : Room(1) /\ Applied("putByte", v, putByte(buf, v), <<>>)
FillWithByte ==
  \E v \in BufBytes, n \in Counts :
    Room(n) /\ Applied("fillWithByte", n, fillWithByte(buf, v, n), <<>>)
PutBytes ==
  \E s \in ByteStrings(BufBytes, 2) :
    Room(Len(s)) /\ Applied("putBytes", Len(s), putBytes(buf, s), <<>>)
PutInt16 == \E i \in {0, 255, 65535} : Room(2) /\ Applied("putInt16", i, putInt16(buf, i), <<>>)
PutInt24 == \E i \in Words : Room(3) /\ Applied("putInt24", i, putInt24(buf, i), <<>>)
PutInt32 == \E i \in Words : Room(4) /\ Applied("putInt32", i, putInt32(buf, i), <<>>)
PutInt ==
  \E i \in Words, n \in Widths :
    Room(n \div 8) /\ Applied("putInt", n, putInt(buf, i, n).buf, <<>>)
PutSignedInt ==
  \E i \in Words, n \in Widths :
    Room(n \div 8) /\ Applied("putSignedInt", n, putSignedInt(buf, i, n).buf, <<>>)
PutBuffer ==
  \E s \in ByteStrings(BufBytes, 1) :
    Room(Len(s)) /\ Applied("putBuffer", Len(s), putBuffer(buf, createBuffer(s)), <<>>)
GetByte == Reach(1) /\ Applied("getByte", 1, getByte(buf).buf, getByte(buf).val)
GetInt16 == Reach(2) /\ Applied("getInt16", 2, getInt16(buf).buf, getInt16(buf).val)
GetInt24 == Reach(3) /\ Applied("getInt24", 3, getInt24(buf).buf, getInt24(buf).val)
GetInt32 == Reach(4) /\ Applied("getInt32", 4, getInt32(buf).buf, getInt32(buf).val)
GetInt ==
  \E n \in Widths :
    Reach(n \div 8) /\ Applied("getInt", n, getInt(buf, n).buf, getInt(buf, n).val)
GetSignedInt ==
  \E n \in Widths :
    Reach(n \div 8) /\
    Applied("getSignedInt", n, getSignedInt(buf, n).buf, getSignedInt(buf, n).val)
GetBytes ==
  \E count \in Counts :
    Applied("getBytes", count, getBytes(buf, count).buf, getBytes(buf, count).val)
GetBytesAll == Applied("getBytesAll", 0, getBytesAll(buf).buf, getBytesAll(buf).val)
Bytes == \E count \in Counts : Applied("bytes", count, buf, bytes(buf, count))
At == \E i \in Counts : Applied("at", i, buf, at(buf, i))
SetAt ==
  \E i \in Counts, v \in BufBytes :
    (buf.read + i < MaxData) /\ Applied("setAt", i, setAt(buf, i, v), <<>>)
Last == Applied("last", 0, buf, last(buf))
Copy == Applied("copy", 0, copyBuffer(buf), <<>>)
Compact == Applied("compact", 0, compact(buf), <<>>)
Clear == Applied("clear", 0, clear(buf), <<>>)
Truncate == \E count \in Counts : Applied("truncate", count, truncate(buf, count), <<>>)

NextBuf ==
  \/ PutByte \/ FillWithByte \/ PutBytes \/ PutInt16 \/ PutInt24 \/ PutInt32
  \/ PutInt \/ PutSignedInt \/ PutBuffer
  \/ GetByte \/ GetInt16 \/ GetInt24 \/ GetInt32 \/ GetInt \/ GetSignedInt
  \/ GetBytes \/ GetBytesAll \/ Bytes \/ At \/ SetAt \/ Last
  \/ Copy \/ Compact \/ Clear \/ Truncate

SpecBuf == InitBuf /\ [][NextBuf]_vars

(***************************************************************************)
(* C15: after any sequence of ByteStringBuffer operations applied to a new *)
(* buffer, 0 <= read <= the stored length, so that length() is never       *)
(* negative; this includes the get operations issued when fewer bytes      *)
(* remain than they read.                                                  *)
(***************************************************************************)
C15_ReadWithinData ==
  pc = "buffer" => 0 <= buf.read /\ buf.read <= Len(buf.data) /\ length(buf) >= 0

\* the operations that read by charCodeAt without looking at length()
UncheckedReads == {"getByte", "getInt16", "getInt24", "getInt32", "getInt", "getSignedInt"}

\* an operation starts within the data and ends past them only if it is one
\* of the unchecked reads
ReadWithinDataButUncheckedReads ==
  pc = "buffer" /\ arg.before.read <= Len(arg.before.data)
                /\ arg.op \notin UncheckedReads =>
    0 <= buf.read /\ buf.read <= Len(buf.data)

(***************************************************************************)
(* C16: getBytes(count) returns the first min(count, length()) unread      *)
(* bytes in order and reduces length() by exactly that many; getBytes()    *)
(* with count left out returns all unread bytes and leaves length() = 0;   *)
(* it never fails when fewer than count bytes remain.                      *)
(***************************************************************************)
\* the n bytes that follow the read cursor of b
FirstUnread(b, n) == [i \in 1..n |-> b.data[b.read + i]]

C16_GetBytes ==
  /\ pc = "buffer" /\ arg.op = "getBytes" =>
       LET n == Min(arg.count, length(arg.before))
       IN /\ Len(arg.val) = n
          /\ arg.val = FirstUnread(arg.before, Len(arg.val))
          /\ length(buf) = length(arg.before) - n
  /\ pc = "buffer" /\ arg.op = "getBytesAll" =>
       /\ arg.val = FirstUnread(arg.before, Max(0, length(arg.before)))
       /\ length(buf) = 0

\* getBytes does what is said of it on every buffer whose cursor lies within
\* its data
GetBytesWithinData ==
  arg.before.read <= Len(arg.before.data) => C16_GetBytes

\* reached: getBytes(2) with one unread byte returns that byte
GetBytesClamped ==
  /\ pc = "buffer" /\ arg.op = "getBytes" /\ arg.count = 2
  /\ length(arg.before) = 1 /\ Len(arg.val) = 1 /\ length(buf) = 0

(***************************************************************************)
(* A caller that writes one number to a new buffer and reads it back:      *)
(* putInt32 then getInt32, or putSignedInt then getSignedInt.              *)
(***************************************************************************)
\* the numbers putInt32 is called with: MaxDelta on both sides of 2^31, above
\* 0, below 2^32 and from 0xDEADBEEF on
Unsigned32Inputs ==
  {NumAdd(c, Num(0, d)) :
     c \in {Num(0, 0), Num(32768, 0), Num(57005, 48879)}, d \in 0..MaxDelta} \cup
  {NumAdd(c, Num(0 - 1, 65536 - d)) :
     c \in {Num(32768, 0), Num(65536, 0)}, d \in 1..MaxDelta}

InitWord ==
  /\ buf = createBuffer(<<>>)
  /\ pc = "word"
  /\ arg \in {[op |-> "putInt32", x |-> x, n |-> 32, val |-> <<>>] :
                x \in Unsigned32Inputs} \cup
             {[op |-> "putSignedInt", x |-> x, n |-> n, val |-> <<>>] :
                x \in IntInputs, n \in Widths}
  /\ obj = <<>> /\ opts = NoOpts /\ err = <<>> /\ src = <<>> /\ tr = NoTrace

PutInt32Value ==
  /\ pc = "word" /\ arg.op = "putInt32"
  /\ buf' = putInt32(buf, arg.x)
  /\ pc' = "put"
  /\ UNCHANGED <<obj, opts, err, src, tr, arg>>

GetInt32Value ==
  /\ pc = "put" /\ arg.op = "putInt32"
  /\ buf' = getInt32(buf).buf
  /\ arg' = [arg EXCEPT !.val = <<getInt32(buf).val>>]
  /\ pc' = "got"
  /\ UNCHANGED <<obj, opts, err, src, tr>>

PutSignedIntValue ==
  /\ pc = "word" /\ arg.op = "putSignedInt"
  /\ buf' = putSignedInt(buf, arg.x, arg.n).buf
  /\ err' = putSignedInt(buf, arg.x, arg.n).err
  /\ pc' = "put"
  /\ UNCHANGED <<obj, opts, src, tr, arg>>

GetSignedIntValue ==
  /\ pc = "put" /\ arg.op = "putSignedInt"
  /\ buf' = getSignedInt(buf, arg.n).buf
  /\ arg' = [arg EXCEPT !.val = <<getSignedInt(buf, arg.n).val>>]
  /\ err' = getSignedInt(buf, arg.n).err
  /\ pc' = "got"
  /\ UNCHANGED <<obj, opts, src, tr>>

NextWord == PutInt32Value \/ GetInt32Value \/ PutSignedIntValue \/ GetSignedIntValue

SpecWord == InitWord /\ [][NextWord]_vars

C18_SignedRoundTrip ==
  arg.op = "putSignedInt" /\ FitsBytes(arg.x, arg.n \div 8) =>
    /\ pc \in {"put", "got"} =>
         err = <<>> /\ buf.data = TwosComplement(arg.x, arg.n \div 8)
    /\ pc = "put" => buf.read = 0
    /\ pc = "got" => length(buf) = 0 /\ NumOf(arg.val[1]) = arg.x

\* reached: -2^31 went through four bytes and came back
C18_Witness ==
  /\ pc = "got" /\ arg.op = "putSignedInt" /\ arg.n = 32
  /\ arg.x = Num(0 - 32768, 0)
  /\ buf.data = <<128, 0, 0, 0>>
  /\ NumOf(arg.val[1]) = arg.x

\* reached: -129 went through two bytes and came back
C18_WitnessTwoBytes ==
  /\ pc = "got" /\ arg.op = "putSignedInt" /\ arg.n = 16
  /\ arg.x = Num(0 - 1, 65407)
  /\ buf.data = <<255, 127>>
  /\ arg.val = <<0 - 129>>

(***************************************************************************)
(* C19: fromDer returns a node with constructed = false and a list of      *)
(* children as its value only for a UNIVERSAL BIT STRING of declared       *)
(* length L > 1, parsed with decodeBitStrings enabled, whose unused-bits   *)
(* byte is 0 and whose other L - 1 content bytes are exactly one value     *)
(* that parses in strict mode with tag class UNIVERSAL or                  *)
(* CONTEXT_SPECIFIC; that node has exactly one child, composed = true,     *)
(* and bitStringContents equal to the L content bytes, the unused-bits     *)
(* byte included.                                                          *)
(***************************************************************************)
StrictOptions == [strict |-> TRUE, parseAllBytes |-> TRUE, decodeBitStrings |-> TRUE]

\* n, a node that is not constructed and has children, is a decoded BIT
\* STRING: s, its bitStringContents, are a zero byte and one value more
DecodedBitString(n, s) ==
  /\ n.tagClass = UNIVERSAL /\ n.type = BITSTRING
  /\ Len(n.value) = 1 /\ n.composed
  /\ Len(s) > 1 /\ s[1] = 0
  /\ \E r \in {fromDer(createBuffer(Tail(s)), StrictOptions)} :
       /\ r.err = <<>>
       /\ r.node[1].tagClass \in {UNIVERSAL, CONTEXT_SPECIFIC}
       /\ SameObject(r.node[1], n.value[1])

\* every node of the tree that is not constructed and has children is one
RECURSIVE DecodedBitStringsOnly(_)
DecodedBitStringsOnly(n) ==
  /\ (n.arr /\ ~n.constructed =>
        n.bsc # <<>> /\ n.bsc[1].def /\ DecodedBitString(n, n.bsc[1].s))
  /\ (n.arr => \A i \in 1..Len(n.value) : DecodedBitStringsOnly(n.value[i]))

\* the root was returned not constructed and with children
RootReshaped == pc = "parsed" /\ obj # <<>> /\ obj[1].arr /\ ~obj[1].constructed

\* the length the header of s declares, when it is definite
DeclaredLength(s) ==
  IF s[2] < 128 THEN s[2] ELSE BigEndian(SubSeq(s, 3, 2 + (s[2] - 128)))

C19_ReshapedOnlyAsDeclared ==
  /\ pc = "parsed" /\ obj # <<>> => opts.decodeBitStrings \/ Unshaped(obj[1]) = obj[1]
  /\ pc = "parsed" /\ obj # <<>> => DecodedBitStringsOnly(obj[1])
  /\ RootReshaped =>
       /\ src[2] # 128
       /\ DeclaredLength(src) > 1
       /\ Len(ContentOf(src)) >= DeclaredLength(src)
       /\ obj[1].bsc[1].s = SubSeq(ContentOf(src), 1, DeclaredLength(src))

\* C19 as the code has it: in lenient mode L is the declared length cut down
\* to the bytes that are left
C19_ReshapedOnlyAsClamped ==
  /\ pc = "parsed" /\ obj # <<>> => opts.decodeBitStrings \/ Unshaped(obj[1]) = obj[1]
  /\ pc = "parsed" /\ obj # <<>> => DecodedBitStringsOnly(obj[1])
  /\ RootReshaped =>
       /\ src[2] # 128
       /\ DeclaredLength(src) > 1
       /\ (opts.strict => Len(ContentOf(src)) >= DeclaredLength(src))
       /\ obj[1].bsc[1].s =
            SubSeq(ContentOf(src), 1, Min(DeclaredLength(src), Len(ContentOf(src))))

\* reached: 03 03 00 02 00 parsed into a BIT STRING that holds an INTEGER
C19_Witness ==
  /\ RootReshaped
  /\ src = <<3, 3, 0, 2, 0>>
  /\ obj[1].composed /\ Len(obj[1].value) = 1
  /\ obj[1].value[1].type = INTEGER
  /\ obj[1].bsc = <<[def |-> TRUE, s |-> <<0, 2, 0>>]>>

\* reached: in lenient mode a BIT STRING that declares 48 bytes and has three
\* is decoded, with bitStringContents of three bytes
C19_WitnessClamped ==
  /\ RootReshaped /\ ~opts.strict
  /\ src = <<3, 48, 0, 2, 0>>
  /\ obj[1].bsc = <<[def |-> TRUE, s |-> <<0, 2, 0>>]>>

(***************************************************************************)
(* A caller that builds one primitive with create() and encodes it.        *)
(***************************************************************************)
\* the bytes of the values: 0x00, 0x7F, 0x80 and 0xFF, in strings of at most
\* MaxIntegerLen bytes
IntegerBytes == {0, 127, 128, 255}
MaxIntegerLen == 3

InitInteger ==
  /\ src \in {create(c, t, FALSE, FALSE, v, <<>>) :
                c \in TreeClasses, t \in {INTEGER, OCTETSTRING},
                v \in ByteStrings(IntegerBytes, MaxIntegerLen)}
  /\ obj = <<src>>
  /\ pc = "built"
  /\ buf = createBuffer(<<>>) /\ opts = NoOpts /\ err = <<>> /\ tr = NoTrace
  /\ arg = Num(0, 0)

SpecInteger == InitInteger /\ [][NextTree]_vars

(***************************************************************************)
(* C20: toDer of a primitive INTEGER node whose value has more than one    *)
(* byte and begins with 0x00 followed by a byte with high bit 0, or with   *)
(* 0xFF followed by a byte with high bit 1, emits the value without its    *)
(* first byte and removes no more, even if what is left is still           *)
(* redundant; every other INTEGER value is emitted unchanged.              *)
(***************************************************************************)
C20_StripsOneByte ==
  pc = "encoded" /\ src.type = INTEGER =>
    LET v == src.value
        content == IF RedundantLead(v) THEN Tail(v) ELSE v
    IN /\ Len(buf.data) = 2 + Len(content)
       /\ buf.data[2] = Len(content)
       /\ SubSeq(buf.data, 3, Len(buf.data)) = content

\* reached: 00 00 00 was emitted as 00 00, which is still redundant
C20_Witness ==
  /\ pc = "encoded" /\ src.type = INTEGER /\ src.tagClass = UNIVERSAL
  /\ src.value = <<0, 0, 0>>
  /\ buf.data = <<2, 2, 0, 0>>

\* reached: 00 80 was emitted unchanged
C20_WitnessKept ==
  /\ pc = "encoded" /\ src.type = INTEGER
  /\ src.value = <<0, 128>>
  /\ buf.data = <<2, 2, 0, 128>>

(***************************************************************************)
(* A caller that parses a constructed value of indefinite length.          *)
(***************************************************************************)
\* the bytes after the header 30 80: 0x00, 0x02 (INTEGER, length 2), 0x30
\* (SEQUENCE) and 0x80 (indefinite length), at most MaxIndefLen of them
IndefBytes == {0, 2, 48, 128}
MaxIndefLen == 4

InitIndef ==
  /\ src \in {<<48, 128>> \o s : s \in ByteStrings(IndefBytes, MaxIndefLen)}
  /\ buf = createBuffer(src)
  /\ pc = "input"
  /\ obj = <<>> /\ opts = NoOpts /\ err = <<>> /\ tr = NoTrace /\ arg = Num(0, 0)

SpecIndef == InitIndef /\ [][NextDer]_vars

(***************************************************************************)
(* C21: for a constructed value whose length byte is exactly 0x80, fromDer *)
(* parses children one after another until the next two unread bytes at a  *)
(* child boundary are 0x00 0x00; those two bytes are consumed, are not     *)
(* made a child, and end the value.  If the budget runs out before such a  *)
(* terminator is found the parse fails with TooFewBytesDerError.           *)
(***************************************************************************)
\* the children of the value that starts at offset p of s, each parsed on its
\* own from the bytes that are left: how the walk ends ("terminator",
\* "exhausted" or "child" when a child fails), the children and the offset
RECURSIVE IndefWalk(_, _, _, _)
RECURSIVE IndefWalkNext(_, _, _, _, _)
IndefWalk(s, p, o, acc) ==
  IF Len(s) - p < 2 THEN [end |-> "exhausted", kids |-> acc, read |-> p, err |-> <<>>]
  ELSE IF s[p + 1] = 0 /\ s[p + 2] = 0
    THEN [end |-> "terminator", kids |-> acc, read |-> p + 2, err |-> <<>>]
  ELSE IndefWalkNext(s, p, o, acc,
                     fromDer(createBuffer(SubSeq(s, p + 1, Len(s))),
                             [o EXCEPT !.parseAllBytes = FALSE]))

IndefWalkNext(s, p, o, acc, c) ==
  IF c.err # <<>> THEN [end |-> "child", kids |-> acc, read |-> p, err |-> c.err]
  ELSE IndefWalk(s, p + c.buf.read, o, Append(acc, c.node[1]))

RootIndefinite ==
  pc = "parsed" /\ Len(src) >= 2 /\ constructedOf(src[1]) /\ src[2] = 128

C21_IndefiniteLength ==
  RootIndefinite =>
    \E w \in {IndefWalk(src, 2, opts, <<>>)} :
      /\ w.end = "terminator" =>
           /\ buf.read = w.read
           /\ err # <<>> => err[1].name = "UnparsedDerBytesRemainError"
           /\ err = <<>> =>
                /\ obj[1].arr /\ Len(obj[1].value) = Len(w.kids)
                /\ \A i \in 1..Len(w.kids) : SameObject(obj[1].value[i], w.kids[i])
      /\ w.end = "exhausted" =>
           err # <<>> /\ err[1].name = "TooFewBytesDerError" /\ obj = <<>>
      /\ w.end = "child" => err # <<>> /\ err[1].name = w.err[1].name /\ obj = <<>>

\* reached: 30 80 02 00 00 00 is a SEQUENCE of one empty INTEGER
C21_Witness ==
  /\ RootIndefinite /\ err = <<>>
  /\ src = <<48, 128, 2, 0, 0, 0>>
  /\ Len(obj[1].value) = 1 /\ obj[1].value[1].type = INTEGER
  /\ buf.read = 6

\* reached: 30 80 02 00 00 has no end tag at a child boundary within the budget
C21_WitnessExhausted ==
  /\ RootIndefinite
  /\ src = <<48, 128, 2, 0, 0>>
  /\ err # <<>> /\ err[1].name = "TooFewBytesDerError"

(***************************************************************************)
(* A caller that parses a BIT STRING, assigns to fields of the object it   *)
(* got (the fields of Asn1 are writable, src/src/asn1.ts 174-183), and     *)
(* encodes the object.  src keeps the object as the parse returned it, arg *)
(* counts the assignments made so far.                                     *)
(***************************************************************************)
MaxEdits == 2

\* 03 02 00 05: a BIT STRING kept as bytes; 03 04 00 02 01 01: one holding an
\* INTEGER; 03 06 00 30 03 02 01 01: one holding a SEQUENCE of an INTEGER
MutInputs == {<<3, 2, 0, 5>>, <<3, 4, 0, 2, 1, 1>>, <<3, 6, 0, 48, 3, 2, 1, 1>>}

\* the values a caller assigns to obj.value: a string or an array
MutValues ==
  {[arr |-> FALSE, value |-> v] : v \in {<<>>, <<0, 5>>, <<1>>}} \cup
  {[arr |-> TRUE, value |-> v] :
     v \in {<<>>, <<create(UNIVERSAL, INTEGER, FALSE, FALSE, <<1>>, <<>>)>>}}

MutPaths == {<<>>, <<1>>, <<1, 1>>}

\* the object at path exists: path lists the indexes into value, root first
RECURSIVE hasPath(_, _)
hasPath(o, path) ==
  IF path = <<>> THEN TRUE
  ELSE IF o.arr /\ path[1] <= Len(o.value) THEN hasPath(o.value[path[1]], Tail(path))
  ELSE FALSE

\* obj.<field> = v
setField(o, field, v) ==
  CASE field = "tagClass" -> [o EXCEPT !.tagClass = v]
    [] field = "type" -> [o EXCEPT !.type = v]
    [] field = "constructed" -> [o EXCEPT !.constructed = v]
    [] field = "composed" -> [o EXCEPT !.composed = v]
    [] field = "value" -> [o EXCEPT !.value = v.value, !.arr = v.arr]

\* the same assignment made to the object at path
RECURSIVE assign(_, _, _, _)
assign(o, path, field, v) ==
  IF path = <<>> THEN setField(o, field, v)
  ELSE [o EXCEPT !.value[path[1]] = assign(@, Tail(path), field, v)]

InitMut ==
  /\ \E s \in MutInputs, d \in BOOLEAN :
       \E r \in {fromDer(createBuffer(s),
                         [strict |-> TRUE, parseAllBytes |-> TRUE, decodeBitStrings |-> d])} :
         /\ r.err = <<>>
         /\ obj = r.node /\ src = r.node[1]
  /\ pc = "built"
  /\ buf = createBuffer(<<>>) /\ opts = NoOpts /\ err = <<>> /\ tr = NoTrace
  /\ arg = 0

Edited(path, field, v) ==
  /\ pc = "built" /\ arg < MaxEdits
  /\ hasPath(obj[1], path)
  /\ obj' = <<assign(obj[1], path, field, v)>>
  /\ arg' = arg + 1
  /\ UNCHANGED <<buf, opts, err, pc, src, tr>>

SetTagClass == \E p \in MutPaths, v \in {UNIVERSAL, CONTEXT_SPECIFIC} : Edited(p, "tagClass", v)
SetType == \E p \in MutPaths, v \in {BITSTRING, INTEGER, SEQUENCE} : Edited(p, "type", v)
SetConstructed == \E p \in MutPaths, v \in BOOLEAN : Edited(p, "constructed", v)
SetComposed == \E p \in MutPaths, v \in BOOLEAN : Edited(p, "composed", v)
SetValue == \E p \in MutPaths, v \in MutValues : Edited(p, "value", v)

NextMut ==
  \/ SetTagClass \/ SetType \/ SetConstructed \/ SetComposed \/ SetValue
  \/ ToDerBuilt

SpecMut == InitMut /\ [][NextMut]_vars

(***************************************************************************)
(* C23: if a node that carries bitStringContents and an original snapshot  *)
(* has been changed after creation in tagClass, type, constructed,         *)
(* composed or value at any depth, toDer does not emit the stored          *)
(* bitStringContents: it encodes the current value (for a primitive-but-   *)
(* composed node a single 0x00 byte followed by the children's encodings). *)
(* If the node is unchanged, the stored bytes are emitted verbatim.        *)
(***************************************************************************)
\* a has in tagClass, type, constructed, composed and value what b has, at
\* every depth
RECURSIVE SameFive(_, _)
SameFive(a, b) ==
  /\ a.tagClass = b.tagClass /\ a.type = b.type
  /\ a.constructed = b.constructed /\ a.composed = b.composed
  /\ a.arr = b.arr
  /\ Len(a.value) = Len(b.value)
  /\ IF a.arr
       THEN \A i \in 1..Len(a.value) : SameFive(a.value[i], b.value[i])
       ELSE a.value = b.value

\* the encodings of the objects of kids, one after another
RECURSIVE Encodings(_)
Encodings(kids) ==
  IF kids = <<>> THEN <<>> ELSE toDer(kids[1]).bytes \o Encodings(Tail(kids))

EncodedWithSnapshot ==
  /\ pc \in {"encoded", "failed"}
  /\ obj[1].bsc # <<>> /\ obj[1].bsc[1].def /\ obj[1].original # <<>>

C23_StoredBytesOnlyIfUnchanged ==
  EncodedWithSnapshot =>
    IF SameFive(obj[1], src)
      THEN /\ err = <<>>
           /\ buf.data = <<Or(obj[1].tagClass, obj[1].type)>>
                           \o derLength(Len(obj[1].bsc[1].s)) \o obj[1].bsc[1].s
      ELSE \E e \in {toDer([obj[1] EXCEPT !.bsc = <<>>, !.original = <<>>])} :
             /\ err = e.err
             /\ err = <<>> =>
                  /\ buf.data = e.bytes
                  /\ (obj[1].composed /\ ~obj[1].constructed /\ obj[1].arr) =>
                       \E c \in {<<0>> \o Encodings(obj[1].value)} :
                         buf.data = <<Or(obj[1].tagClass, obj[1].type)>>
                                      \o derLength(Len(c)) \o c

\* reached: the INTEGER inside the SEQUENCE inside a decoded BIT STRING was
\* given the value 00 05, and the BIT STRING is encoded from its children (the
\* INTEGER without its leading 00)
C23_Witness ==
  /\ EncodedWithSnapshot /\ err = <<>>
  /\ src.arr /\ src.value[1].arr
  /\ hasPath(obj[1], <<1, 1>>) /\ obj[1].value[1].value[1].value = <<0, 5>>
  /\ SameFive([obj[1] EXCEPT !.value[1].value[1].value = <<1>>], src)
  /\ buf.data = <<3, 6, 0, 48, 3, 2, 1, 5>>

\* reached: a value was assigned and later assigned back; the stored bytes
\* are emitted
C23_WitnessUnchanged ==
  /\ EncodedWithSnapshot /\ err = <<>>
  /\ arg = 2 /\ SameFive(obj[1], src)
  /\ src.arr
  /\ buf.data = <<3, 4, 0, 2, 1, 1>>

(***************************************************************************)
(* C22: for every primitive value with a definite declared length L that   *)
(* fits the remaining budget, the parse consumes exactly L content bytes   *)
(* and never bytes of a following sibling; this holds for BMPSTRING for    *)
(* every L, odd lengths included.                                          *)
(***************************************************************************)
\* the first value of s is primitive, with a definite length that the bytes
\* after its header cover
PrimitiveThatFits(s) ==
  /\ Len(s) >= 2 /\ ~constructedOf(s[1]) /\ s[2] # 128
  /\ s[2] > 128 => s[2] - 128 <= 3 /\ Len(s) >= 2 + (s[2] - 128)
  /\ DeclaredLength(s) <= Len(ContentOf(s))

\* the cursor stands right behind the declared content
ConsumedDeclared(s) ==
  /\ err # <<>> => err[1].name = "UnparsedDerBytesRemainError"
  /\ buf.read = (Len(s) - Len(ContentOf(s))) + DeclaredLength(s)

C22_ConsumesDeclaredLength ==
  pc = "parsed" /\ PrimitiveThatFits(src) => ConsumedDeclared(src)

\* what does hold: every such primitive but a BMPSTRING of odd length
ConsumesDeclaredLengthUnlessOddBmp ==
  pc = "parsed" /\ PrimitiveThatFits(src)
    /\ ~(typeOf(src[1]) = BMPSTRING /\ DeclaredLength(src) % 2 = 1)
  => ConsumedDeclared(src)

\* a BMPSTRING of odd length L takes L + 1 bytes, or fails when they are not there
OddBmpTakesOneMore ==
  pc = "parsed" /\ PrimitiveThatFits(src)
    /\ typeOf(src[1]) = BMPSTRING /\ DeclaredLength(src) % 2 = 1
  => IF DeclaredLength(src) < Len(ContentOf(src))
       THEN /\ buf.read = (Len(src) - Len(ContentOf(src))) + DeclaredLength(src) + 1
            /\ err # <<>> => err[1].name = "UnparsedDerBytesRemainError"
       ELSE err # <<>> /\ err[1].name = "TooFewBytesDerError"

(***************************************************************************)
(* A caller that holds two objects, each parsed or built with create(),    *)
(* copies the second and compares the two.  src is the first object, obj   *)
(* the second, arg the last call with its result.                          *)
(***************************************************************************)
\* BIT STRINGs kept as bytes or reshaped, alone and inside a SEQUENCE; 02 81 01
\* 05 is the INTEGER 02 01 05 with its length in long form
CopyInputs ==
  {<<2, 1, 5>>, <<3, 2, 0, 5>>, <<3, 4, 0, 2, 1, 5>>, <<3, 5, 0, 2, 129, 1, 5>>,
   <<48, 3, 2, 1, 5>>, <<48, 4, 3, 2, 0, 5>>, <<48, 6, 3, 4, 0, 2, 1, 5>>,
   <<48, 7, 3, 5, 0, 2, 129, 1, 5>>}

Parsed ==
  {fromDer(createBuffer(s),
           [strict |-> TRUE, parseAllBytes |-> TRUE, decodeBitStrings |-> d]).node[1] :
     s \in CopyInputs, d \in BOOLEAN}

\* create() with a string or an array, constructed or not, with and without
\* options.bitStringContents
Created ==
  {create(UNIVERSAL, BITSTRING, k, a,
          IF a THEN <<create(UNIVERSAL, INTEGER, FALSE, FALSE, <<5>>, <<>>)>> ELSE <<0, 5>>,
          b) :
     k \in BOOLEAN, a \in BOOLEAN, b \in {<<>>, <<[def |-> TRUE, s |-> <<0, 5>>]>>}}

InitCopy ==
  /\ src \in Parsed \cup Created
  /\ obj \in {<<o>> : o \in Parsed \cup Created}
  /\ pc = "pair"
  /\ arg = [op |-> "none"]
  /\ buf = createBuffer(<<>>) /\ opts = NoOpts /\ err = <<>> /\ tr = NoTrace

\* obj = copy(obj, options): hasOptions tells whether options were passed
CopyObject(hasOptions, exclude) ==
  /\ pc = "pair"
  /\ obj' = <<copy(obj[1], hasOptions, exclude)>>
  /\ arg' = [op |-> "copy", hasOptions |-> hasOptions, exclude |-> exclude,
             before |-> obj[1]]
  /\ pc' = "copied"
  /\ UNCHANGED <<buf, opts, err, src, tr>>

CopyPlain == CopyObject(FALSE, FALSE)
CopyWithOptions == \E e \in BOOLEAN : CopyObject(TRUE, e)

\* equals(src, obj, options)
Equals(include) ==
  /\ pc \in {"pair", "copied"}
  /\ arg' = [op |-> "equals", include |-> include,
             rval |-> equals(src, obj[1], include)]
  /\ pc' = "compared"
  /\ UNCHANGED <<obj, buf, opts, err, src, tr>>

EqualsPlain == Equals(FALSE)
EqualsWithContents == Equals(TRUE)

NextCopy == CopyPlain \/ CopyWithOptions \/ EqualsPlain \/ EqualsWithContents

SpecCopy == InitCopy /\ [][NextCopy]_vars

(***************************************************************************)
(* C24: equals(a, b, {includeBitStringContents: true}) is a deep           *)
(* comparison: it returns true exactly when a and b agree in tagClass,     *)
(* type, constructed, composed, value and bitStringContents at every node, *)
(* descendants included, ignoring original; without the option             *)
(* bitStringContents is ignored at every node.                             *)
(***************************************************************************)
\* a and b agree in the five fields and in bitStringContents at every node
RECURSIVE SameSix(_, _)
SameSix(a, b) ==
  /\ a.tagClass = b.tagClass /\ a.type = b.type
  /\ a.constructed = b.constructed /\ a.composed = b.composed
  /\ a.arr = b.arr
  /\ bitStringContentsOf(a) = bitStringContentsOf(b)
  /\ Len(a.value) = Len(b.value)
  /\ IF a.arr
       THEN \A i \in 1..Len(a.value) : SameSix(a.value[i], b.value[i])
       ELSE a.value = b.value

Compared == pc = "compared" /\ arg.op = "equals"

C24_EqualsIsDeep ==
  Compared => arg.rval = (IF arg.include THEN SameSix(src, obj[1]) ELSE SameFive(src, obj[1]))

\* what does hold: bitStringContents is compared at the root alone
EqualsComparesRootContents ==
  Compared =>
    arg.rval = (/\ SameFive(src, obj[1])
                /\ arg.include => bitStringContentsOf(src) = bitStringContentsOf(obj[1]))

(***************************************************************************)
(* C25: every node produced by create, by copy of such a node, or by       *)
(* fromDer (at every depth, reshaped BIT STRINGs included) satisfies       *)
(* composed == (constructed or value is a list).                           *)
(***************************************************************************)
\* n, its descendants and its snapshot have composed as the rule says
RECURSIVE ComposedAsRuled(_)
ComposedAsRuled(n) ==
  /\ n.composed = (n.constructed \/ n.arr)
  /\ n.arr => \A i \in 1..Len(n.value) : ComposedAsRuled(n.value[i])
  /\ n.original # <<>> => ComposedAsRuled(n.original[1])

C25_ComposedRule == ComposedAsRuled(src) /\ ComposedAsRuled(obj[1])

\* reached: the copy of a parsed SEQUENCE holding a reshaped BIT STRING
C25_Witness ==
  /\ pc = "copied"
  /\ obj[1].constructed /\ obj[1].arr /\ obj[1].composed
  /\ Len(obj[1].value) = 1
  /\ obj[1].value[1].type = BITSTRING /\ obj[1].value[1].arr
  /\ ~obj[1].value[1].constructed /\ obj[1].value[1].composed

\* the same rule for the objects of the parsing and the building callers
ComposedRuleParsedOrBuilt == obj # <<>> => ComposedAsRuled(obj[1])

(***************************************************************************)
(* C27: copy(node, options) returns an independent tree with the same      *)
(* tagClass, type, constructed, composed and value at every node, and      *)
(* leaves bitStringContents out only when options.excludeBitStringContents *)
(* is true; in every other call, a call with no options included, each     *)
(* copied node has the same bitStringContents as its source.               *)
(***************************************************************************)
\* no node of n has a bitStringContents key
RECURSIVE NoContents(_)
NoContents(n) ==
  /\ n.bsc = <<>>
  /\ n.arr => \A i \in 1..Len(n.value) : NoContents(n.value[i])

Copied == pc = "copied" /\ arg.op = "copy"

C27_CopyKeepsContents ==
  Copied =>
    /\ SameFive(obj[1], arg.before)
    /\ IF arg.hasOptions /\ arg.exclude
         THEN NoContents(obj[1])
         ELSE SameSix(obj[1], arg.before)

\* what does hold: the five fields are copied by every call, and
\* bitStringContents only by a call that passes options without
\* excludeBitStringContents
CopyKeepsContentsIfAsked ==
  Copied =>
    /\ SameFive(obj[1], arg.before)
    /\ IF arg.hasOptions /\ ~arg.exclude
         THEN SameSix(obj[1], arg.before)
         ELSE NoContents(obj[1])

(***************************************************************************)
(* C29: if validate returns false, the capture map holds exactly the keys  *)
(* and values it held before the call: no capture of a child that matched  *)
(* before the failing schema child, or inside a skipped optional child, is *)
(* left behind.                                                            *)
(***************************************************************************)
\* validate returned false (it did not throw) and the caller passed a map
ReturnedFalse ==
  pc = "validated" /\ err = <<>> /\ arg.rval = <<FALSE>> /\ arg.st.hasCapture

\* the claim as written: the caller passed an empty map
C29_FailedLeavesNoCapture ==
  ReturnedFalse => \A key \in CaptureKeys : arg.st.capture[key] = <<>>

\* C29 as amended: the map holds the captures of the entries that matched
\* before the failure, and nothing else
C29_FailedKeepsMatchedCaptures ==
  ReturnedFalse =>
    /\ \A key \in CaptureKeys :
         arg.st.capture[key] # <<>> <=>
           \E i \in 1..Len(arg.st.log) :
             key \in KeysWritten(EntryNamed(arg.v, arg.st.log[i].name), arg.st.log[i].obj)
    /\ \A i \in 1..Len(arg.st.log) :
         \E e \in {EntryNamed(arg.v, arg.st.log[i].name)}, o \in {arg.st.log[i].obj} :
           /\ e # arg.v
           /\ (~isChar(o) /\ e.capture # <<>>
                 /\ LastWriter(arg.v, arg.st.log, i, e.capture[1])) =>
                arg.st.capture[e.capture[1]]
                  = <<[kind |-> (IF o.arr THEN "array" ELSE "string"), val |-> o.value]>>

\* reached: SEQUENCE [INTEGER captured as 'v', BIT STRING] against the parsed
\* SEQUENCE { INTEGER 5, INTEGER 6 } returns false and leaves capture['v']
C29_Witness ==
  /\ ReturnedFalse
  /\ src = <<48, 6, 2, 1, 5, 2, 1, 6>>
  /\ arg.v.value = <<<<Entry("e1", IntShape, FALSE, ValueCapture, <<>>),
                       Entry("e2", BitsShape, FALSE, NoCaptures, <<>>)>>>>
  /\ arg.st.capture["v"] = <<[kind |-> "string", val |-> <<5>>]>>

(***************************************************************************)
(* getBerValueLength (src/src/asn1.ts) and a caller that reads a length    *)
(* prefix with it and then, from a new buffer over the same bytes, with    *)
(* _getValueLength.  arg keeps the two results.                            *)
(***************************************************************************)
\* the count of length bytes passed on as the count of bits
berLengthBitsAsBytes(b2) == ToInt(b2) % 128

\* (b2 & 0x7F) << 3
berLengthBits(b2) == (ToInt(b2) % 128) * 8

\* getBerValueLength(b): undef = TRUE stands for the return value undefined,
\* nan = TRUE for NaN
getBerValueLength(b) ==
  LET g == getByte(b)
      b2 == g.val
      gi == getInt(g.buf, berLengthBits(b2))
  IN IF b2 = 128
       THEN [err |-> <<>>, undef |-> TRUE, len |-> 0, nan |-> FALSE, buf |-> g.buf]
     ELSE IF ToInt(b2) < 128
       THEN [err |-> <<>>, undef |-> FALSE, len |-> ToInt(b2), nan |-> b2 = NaN, buf |-> g.buf]
     ELSE IF gi.err # <<>>
       THEN [err |-> gi.err, undef |-> FALSE, len |-> 0, nan |-> FALSE, buf |-> g.buf]
     ELSE [err |-> <<>>, undef |-> FALSE, len |-> gi.val, nan |-> gi.nan, buf |-> gi.buf]

\* the bytes that follow the first byte: at most MaxBerLen of them
MaxBerLen == 5
FirstBytes == {0, 5, 127, 128, 129, 130, 131, 132, 133, 255}
BerBytes == {0, 1, 128, 255}

InitBer ==
  /\ src \in {<<f>> \o s : f \in FirstBytes, s \in ByteStrings(BerBytes, MaxBerLen)}
  /\ buf = createBuffer(src)
  /\ pc = "input"
  /\ arg = [op |-> "none"]
  /\ obj = <<>> /\ opts = NoOpts /\ err = <<>> /\ tr = NoTrace

\* length = getBerValueLength(buf)
ReadStandalone ==
  /\ pc = "input"
  /\ \E r \in {getBerValueLength(buf)} :
       /\ arg' = [op |-> "standalone", ber |-> r]
       /\ buf' = r.buf
       /\ err' = r.err
  /\ pc' = "standalone"
  /\ UNCHANGED <<obj, opts, src, tr>>

\* length = _getValueLength(bytes, remaining) on a new buffer over the same
\* bytes, remaining being bytes.length()
ReadInternal ==
  /\ pc = "standalone"
  /\ \E r \in {getValueLength(createBuffer(src), Len(src))} :
       /\ arg' = [op |-> "both", ber |-> arg.ber, internal |-> r]
       /\ buf' = r.buf
       /\ err' = r.err
  /\ pc' = "both"
  /\ UNCHANGED <<obj, opts, src, tr>>

NextBer == ReadStandalone \/ ReadInternal

SpecBer == InitBer /\ [][NextBer]_vars

(***************************************************************************)
(* C26: getBerValueLength and _getValueLength both decode a long-form      *)
(* length whose first byte is 0x80|k (1 <= k <= 127, enough bytes present) *)
(* as the unsigned big-endian integer formed by the k following bytes,     *)
(* consuming 1+k bytes, and therefore return the same length on the same   *)
(* input; a first byte below 0x80 yields that byte as the length and a     *)
(* first byte of exactly 0x80 yields undefined.                            *)
(***************************************************************************)
\* both readers were applied to src; k length bytes are present
BothRead == pc = "both"
LongForm(k) == src[1] = 128 + k /\ Len(src) >= 1 + k

\* the base-256 digits of n >= 0, most significant first, none for 0
RECURSIVE Digits256(_)
Digits256(n) == IF n = 0 THEN <<>> ELSE Append(Digits256(n \div 256), n % 256)

RECURSIVE StripZeros(_)
StripZeros(s) == IF s # <<>> /\ s[1] = 0 THEN StripZeros(Tail(s)) ELSE s

\* the reader's result r is the unsigned number the bytes s spell, read with
\* c bytes
Yields(r, s, c) ==
  /\ r.err = <<>> /\ ~r.undef /\ r.buf.read = c
  /\ r.len >= 0 /\ Digits256(r.len) = StripZeros(s)

ShortOrIndefinite ==
  /\ src[1] < 128 => Yields(arg.ber, <<src[1]>>, 1) /\ Yields(arg.internal, <<src[1]>>, 1)
  /\ src[1] = 128 =>
       /\ arg.ber.err = <<>> /\ arg.ber.undef /\ arg.ber.buf.read = 1
       /\ arg.internal.err = <<>> /\ arg.internal.undef /\ arg.internal.buf.read = 1

C26_WitnessNegative ==
  /\ BothRead /\ src = <<132, 128, 0, 0, 1>>
  /\ arg.ber.err = <<>> /\ arg.ber.len = (0 - 128) * 16777216 + 1
  /\ arg.internal.err # <<>>

(***************************************************************************)
(* C28: during any fromDer call, in every recursive _fromDer invocation    *)
(* and at every step, the remaining budget is non-negative and not larger  *)
(* than the number of unread bytes of the buffer, so no byte is ever read  *)
(* at or beyond the end of the buffer (no read yields a missing byte).     *)
(* This holds in strict and in lenient mode.                               *)
(***************************************************************************)
C28_BudgetWithinBuffer ==
  pc \in {"parsed", "reparsed"} => ~tr.bad /\ ~tr.badStep /\ ~tr.missing

\* reached: a lenient parse that clamped a declared length, went into a child
\* and returned an object
C28_Witness ==
  /\ pc = "parsed" /\ ~opts.strict /\ err = <<>>
  /\ tr.over /\ tr.deep >= 1 /\ tr.calls >= 2
  /\ ~tr.bad /\ ~tr.badStep /\ ~tr.missing

\* reached: a strict parse whose speculative decode ran out of budget
C28_WitnessSwallowed ==
  /\ pc = "parsed" /\ opts.strict /\ err = <<>>
  /\ tr.swallowed /\ ~tr.missing

(***************************************************************************)
(* A caller that parses longer inputs over fewer bytes: 0x30 (SEQUENCE),   *)
(* 0x02 (INTEGER), 0x03 (BIT STRING), and the lengths 0, 2, 3, 4.          *)
(***************************************************************************)
DeepBytes == {0, 2, 3, 4, 48}
MaxDeepLen == 6

InitDeep ==
  /\ src \in ByteStrings(DeepBytes, MaxDeepLen)
  /\ buf = createBuffer(src)
  /\ pc = "input"
  /\ obj = <<>> /\ opts = NoOpts /\ err = <<>> /\ tr = NoTrace /\ arg = Num(0, 0)

SpecDeep == InitDeep /\ [][NextDer]_vars

(***************************************************************************)
(* C30: every fromDer call on a finite buffer terminates: each recursive   *)
(* _fromDer invocation consumes at least two bytes, every iteration of the *)
(* definite-length and indefinite-length child loops strictly reduces the  *)
(* budget, and recursion depth never exceeds half the input length.        *)
(***************************************************************************)
C30_ParseTerminates ==
  pc \in {"parsed", "reparsed"} =>
    /\ ~tr.short /\ ~tr.stuck
    /\ 2 * tr.deep <= Len(buf.data)
    /\ tr.calls >= 1

\* reached: 30 04 30 02 02 00, three invocations one inside the other
C30_Witness ==
  /\ pc = "parsed" /\ err = <<>>
  /\ src = <<48, 4, 48, 2, 2, 0>>
  /\ tr.deep = 2 /\ tr.calls = 3
  /\ ~tr.short /\ ~tr.stuck

\* reached: 30 04 02 00 02 00, a child loop of two rounds
C30_WitnessLoop ==
  /\ pc = "parsed" /\ err = <<>>
  /\ src = <<48, 4, 2, 0, 2, 0>>
  /\ Len(obj[1].value) = 2 /\ tr.deep = 1 /\ tr.calls = 3
  /\ ~tr.stuck

====
